---- MODULE Spec2Model ----
(***************************************************************************)
(* A model of the pie-crust voxel terrain library: the bit-packed octant   *)
(* keys (OctantKey, TreeKey), the axis-aligned boxes (AABB), the sculpting *)
(* actions (Action) and the two density fields (NaiveOctree, OctantMap).   *)
(*                                                                         *)
(* A 64-bit key is modelled field by field (its 3-bit cell indices, its    *)
(* unused bits, its depth or corner field), so that "bit-identical" is     *)
(* equality of records.  Coordinates are integers on a grid of 2^19 steps  *)
(* per metre, exact for every octant corner; densities are fixed-point     *)
(* integers, and a quotient or midpoint that falls between two steps is    *)
(* rounded down, which keeps its sign.                                     *)
(***************************************************************************)
EXTENDS Integers, Sequences, FiniteSets, Bags, TLC

VARIABLES
    okey,      \* an OctantKey (octant_map/octant_key.rs)
    tkey,      \* a TreeKey (linear_octree/tree_key.rs)
    isect,     \* the last AABB::intersect call: both boxes and both results
    cont,      \* an AABB being grown by expand, with the points given so far
    act,       \* the last Action::apply_value call: inputs and result
    zeroMin,   \* which operand f32::min returns for a pair of zeros of
               \* opposite sign (left open by the language, fixed by the build)
    naive,     \* a NaiveOctree, with the last apply_tool call made on it
    omap,      \* an OctantMap, with the last apply_tool_* call made on it
    refined,   \* the last utils::subdivide_cell call: the cell and its 8 parts
    sub,       \* the last AABB::octree_subdivide call: the box and its 8 parts
    mesh,      \* the last generate_mesh / par_generate_mesh of the NaiveOctree
    par,       \* a NaiveOctree::par_apply_tool call in progress
    mcube,     \* the last look-up of the marching-cubes tables
    geom,      \* a Mesh (mesh.rs), with the last operation made on it
    morton,    \* a MortonOctantKey (morton/key.rs)
    arena,     \* a Terrain (lib.rs): its cell arena and the subdivide_cell
               \* calls of two threads
    step       \* the last NaiveOctreeCell::apply_tool step on one cell

vars == <<okey, tkey, isect, cont, act, zeroMin, naive, omap, refined, sub, mesh,
          par, mcube, geom, morton, arena, step>>

\* Child and corner indices are 3-bit unsigned integers.
Indices == 0..7

\* The function f with every value computed and kept: f itself, as a table.
Tabulated(f) == f @@ <<>>

\* The value e with v computed before it: a let binding of the code is
\* evaluated where it stands, a LET definition where it is first used.
Strict(v, e) == IF v = v THEN e ELSE e

\* Cell levels at which the model stores arbitrary indices; deeper levels
\* only ever receive index 0 (or, for a TreeKey, the corner fill).
MaxLevel == 2

(***************************************************************************)
(* OctantKey                                                               *)
(***************************************************************************)

\* at_max_depth: the deepest level an OctantKey addresses.
OctantKeyMaxDepth == 19

OctantKeyLevels == 1..OctantKeyMaxDepth

\* OctantKey::root(): the all-zero 64-bit value.
OctantKey_root ==
    [depth |-> 0, funny |-> 0, cells |-> Tabulated([l \in OctantKeyLevels |-> 0])]

OctantKey_depth(k) == k.depth

\* OctantKey::set_depth (assert new_depth <= 19 is the caller's guard).
\* The indices past new_depth are zeroed only when truncating to a depth
\* other than 0.
OctantKey_set_depth(k, new_depth) ==
    [k EXCEPT !.depth = new_depth,
              !.cells = IF new_depth < k.depth /\ new_depth # 0
                        THEN Tabulated([l \in OctantKeyLevels |->
                                IF l > new_depth THEN 0 ELSE k.cells[l]])
                        ELSE k.cells]

OctantKey_set_depth_ok(k, new_depth) == new_depth <= OctantKeyMaxDepth

OctantKey_at_max_depth(k) == k.depth = OctantKeyMaxDepth

\* OctantKey::get_index, defined when 0 < depth <= key depth.
OctantKey_get_index(k, depth) == k.cells[depth]

OctantKey_index_ok(k, depth) == depth <= k.depth /\ depth > 0

\* OctantKey::set_index
OctantKey_set_index(k, depth, index) ==
    [k EXCEPT !.cells = [k.cells EXCEPT ![depth] = index]]

\* OctantKey::push, defined when the key is not at its maximum depth.
OctantKey_push(k, index) ==
    LET depth == k.depth + 1
        k1 == OctantKey_set_depth(k, depth)
    IN  [k1 EXCEPT !.cells = [k1.cells EXCEPT ![depth] = index]]

OctantKey_push_ok(k) == ~OctantKey_at_max_depth(k)

\* OctantKey::child and OctantKey::parent work on a copy of the key.
OctantKey_child(k, index) == OctantKey_push(k, index)

\* OctantKey::pop, defined when depth > 0: the index returned and the key left.
OctantKey_pop(k) ==
    [index |-> OctantKey_get_index(k, k.depth),
     key   |-> OctantKey_set_depth(k, k.depth - 1)]

OctantKey_pop_ok(k) == k.depth > 0

OctantKey_parent(k) == OctantKey_pop(k).key

\* OctantKey::iter: the cell indices up to the key's depth.
OctantKey_iter(k) == Tabulated([l \in 1..k.depth |-> k.cells[l]])

\* OctantKey::_sanity_check: the three assertions.
OctantKey_sanity_check(k) ==
    /\ k.depth <= OctantKeyMaxDepth
    /\ \A l \in OctantKeyLevels : k.cells[l] = 0 \/ l <= k.depth
    /\ k.funny = 0

\* The key built from root() by pushing the indices of path in order.
RECURSIVE OctantKey_from_path(_)
OctantKey_from_path(path) ==
    IF path = <<>> THEN OctantKey_root
    ELSE OctantKey_push(OctantKey_from_path(SubSeq(path, 1, Len(path) - 1)),
                        path[Len(path)])

\* An index the model stores at a level: any index up to MaxLevel, 0 beyond.
Storable(level, index) == level <= MaxLevel \/ index = 0

OKPush ==
    \E i \in Indices :
        /\ OctantKey_push_ok(okey)
        /\ Storable(okey.depth + 1, i)
        /\ okey' = OctantKey_push(okey, i)
        /\ UNCHANGED <<tkey, isect, cont, act, zeroMin, naive, omap, refined, sub, mesh, par, mcube, geom, morton, arena, step>>

OKPop ==
    /\ OctantKey_pop_ok(okey)
    /\ okey' = OctantKey_pop(okey).key
    /\ UNCHANGED <<tkey, isect, cont, act, zeroMin, naive, omap, refined, sub, mesh, par, mcube, geom, morton, arena, step>>

OKChild ==
    \E i \in Indices :
        /\ OctantKey_push_ok(okey)
        /\ Storable(okey.depth + 1, i)
        /\ okey' = OctantKey_child(okey, i)
        /\ UNCHANGED <<tkey, isect, cont, act, zeroMin, naive, omap, refined, sub, mesh, par, mcube, geom, morton, arena, step>>

OKParent ==
    /\ OctantKey_pop_ok(okey)
    /\ okey' = OctantKey_parent(okey)
    /\ UNCHANGED <<tkey, isect, cont, act, zeroMin, naive, omap, refined, sub, mesh, par, mcube, geom, morton, arena, step>>

OKSetDepth ==
    \E d \in 0..OctantKeyMaxDepth :
        /\ OctantKey_set_depth_ok(okey, d)
        /\ okey' = OctantKey_set_depth(okey, d)
        /\ UNCHANGED <<tkey, isect, cont, act, zeroMin, naive, omap, refined, sub, mesh, par, mcube, geom, morton, arena, step>>

OKSetIndex ==
    \E d \in OctantKeyLevels, i \in Indices :
        /\ OctantKey_index_ok(okey, d)
        /\ Storable(d, i)
        /\ okey' = OctantKey_set_index(okey, d, i)
        /\ UNCHANGED <<tkey, isect, cont, act, zeroMin, naive, omap, refined, sub, mesh, par, mcube, geom, morton, arena, step>>

(***************************************************************************)
(* TreeKey                                                                 *)
(***************************************************************************)

\* at_max_depth: the deepest level a TreeKey addresses.
TreeKeyMaxDepth == 20

TreeKeyLevels == 1..TreeKeyMaxDepth

\* CUBE_CORNERS: corner i of the unit cube in Z-order, bit 0 of i selecting
\* x, bit 1 y and bit 2 z.
CUBE_CORNERS == Tabulated([i \in Indices |-> <<i % 2, (i \div 2) % 2, (i \div 4) % 2>>])

\* TreeKey::default(): key 0, depth 0.
TreeKey_default ==
    [cells |-> Tabulated([l \in TreeKeyLevels |-> 0]), funny |-> 0, corner |-> 0, depth |-> 0]

\* The packed 64-bit field `key` of a TreeKey (the struct also holds depth).
TreeKey_key(k) == [cells |-> k.cells, funny |-> k.funny, corner |-> k.corner]

TreeKey_corner(k) == k.corner

TreeKey_at_max_depth(k) == k.depth = TreeKeyMaxDepth

\* set_depth that leaves the cut-off indices as they were.
TreeKey_set_depth_stale(k, new_depth) == [k EXCEPT !.depth = new_depth]

\* TreeKey::set_depth (assert new_depth <= 20 is the caller's guard): the
\* indices cut off are overwritten with the corner index.
TreeKey_set_depth(k, new_depth) ==
    IF k.depth = new_depth THEN k
    ELSE [k EXCEPT !.depth = new_depth,
                   !.cells = IF k.depth > new_depth
                             THEN Tabulated([l \in TreeKeyLevels |->
                                     IF l > new_depth /\ l <= k.depth
                                     THEN TreeKey_corner(k) ELSE k.cells[l]])
                             ELSE k.cells]

TreeKey_set_depth_ok(k, new_depth) ==
    k.depth = new_depth \/ new_depth <= TreeKeyMaxDepth

\* TreeKey::get_index, defined when depth <= 20; depth 0 reads as 0.
TreeKey_get_index(k, depth) == IF depth = 0 THEN 0 ELSE k.cells[depth]

\* TreeKey::set_index, defined when 0 < depth <= key depth.
TreeKey_set_index(k, depth, index) ==
    [k EXCEPT !.cells = [k.cells EXCEPT ![depth] = index]]

TreeKey_index_ok(k, depth) == depth <= k.depth /\ depth > 0

\* TreeKey::set_corner: stores the corner index and copies it into every
\* cell index past depth.
TreeKey_set_corner(k, corner_idx) ==
    [k EXCEPT !.corner = corner_idx,
              !.cells = Tabulated([l \in TreeKeyLevels |->
                           IF l > k.depth THEN corner_idx ELSE k.cells[l]])]

\* TreeKey::push, defined when the key is not at its maximum depth.
TreeKey_push(k, index) ==
    [k EXCEPT !.depth = k.depth + 1,
              !.cells = [k.cells EXCEPT ![k.depth + 1] = index]]

TreeKey_push_ok(k) == ~TreeKey_at_max_depth(k)

\* TreeKey::pop, defined when depth > 0: the index returned and the key left.
TreeKey_pop(k) ==
    [index |-> TreeKey_get_index(k, k.depth),
     key   |-> TreeKey_set_depth(k, k.depth - 1)]

TreeKey_pop_ok(k) == k.depth > 0

\* TreeKey::from_iter: push every index, then set the corner.
RECURSIVE TreeKey_push_all(_, _)
TreeKey_push_all(k, cell_iter) ==
    IF cell_iter = <<>> THEN k
    ELSE TreeKey_push_all(TreeKey_push(k, Head(cell_iter)), Tail(cell_iter))

TreeKey_from_iter(cell_iter, corner) ==
    TreeKey_set_corner(TreeKey_push_all(TreeKey_default, cell_iter), corner)

\* TreeKey::corner_keys: the key with each of the 8 corners set.
TreeKey_corner_keys(k) == Tabulated([idx \in Indices |-> TreeKey_set_corner(k, idx)])

\* TreeKey::iter: the cell indices up to the key's depth.
TreeKey_iter(k) == Tabulated([l \in 1..k.depth |-> k.cells[l]])

\* TreeKey::cell_aabb on a grid of 2^20 steps per unit: scale halves at
\* each level and start moves by CUBE_CORNERS[cell_idx] * scale.
TreeKey_cell_aabb(k) ==
    LET scaleAt(l) == 2 ^ (TreeKeyMaxDepth - l)
        coord(a) == LET RECURSIVE sum(_)
                        sum(l) == IF l = 0 THEN 0
                                  ELSE sum(l - 1)
                                       + CUBE_CORNERS[k.cells[l]][a] * scaleAt(l)
                    IN  sum(k.depth)
    IN  [start |-> <<coord(1), coord(2), coord(3)>>,
         size  |-> <<scaleAt(k.depth), scaleAt(k.depth), scaleAt(k.depth)>>]

\* _sanity_check: past depth every index equals the corner; bit 60 is 0.
TreeKey_sanity_check(k) ==
    /\ \A l \in TreeKeyLevels : l > k.depth => k.cells[l] = k.corner
    /\ k.funny = 0

\* The paths of the cells down to depth MaxLevel.
Paths == UNION {[1..n -> Indices] : n \in 0..MaxLevel}

\* from_iter constructs a key from nothing, so it is taken once, first.
TKFromIter ==
    \E path \in Paths, c \in Indices :
            /\ tkey = TreeKey_default
            /\ tkey' = TreeKey_from_iter(path, c)
            /\ UNCHANGED <<okey, isect, cont, act, zeroMin, naive, omap, refined, sub, mesh, par, mcube, geom, morton, arena, step>>

TKPush ==
    \E i \in Indices :
        /\ TreeKey_push_ok(tkey)
        /\ tkey.depth < MaxLevel
        /\ tkey' = TreeKey_push(tkey, i)
        /\ UNCHANGED <<okey, isect, cont, act, zeroMin, naive, omap, refined, sub, mesh, par, mcube, geom, morton, arena, step>>

TKPop ==
    /\ TreeKey_pop_ok(tkey)
    /\ tkey' = TreeKey_pop(tkey).key
    /\ UNCHANGED <<okey, isect, cont, act, zeroMin, naive, omap, refined, sub, mesh, par, mcube, geom, morton, arena, step>>

TKSetDepth ==
    \E d \in 0..MaxLevel :
        /\ TreeKey_set_depth_ok(tkey, d)
        /\ tkey' = TreeKey_set_depth(tkey, d)
        /\ UNCHANGED <<okey, isect, cont, act, zeroMin, naive, omap, refined, sub, mesh, par, mcube, geom, morton, arena, step>>

TKSetIndex ==
    \E d \in 1..MaxLevel, i \in Indices :
        /\ TreeKey_index_ok(tkey, d)
        /\ tkey' = TreeKey_set_index(tkey, d, i)
        /\ UNCHANGED <<okey, isect, cont, act, zeroMin, naive, omap, refined, sub, mesh, par, mcube, geom, morton, arena, step>>

TKSetCorner ==
    \E c \in Indices :
        /\ tkey' = TreeKey_set_corner(tkey, c)
        /\ UNCHANGED <<okey, isect, cont, act, zeroMin, naive, omap, refined, sub, mesh, par, mcube, geom, morton, arena, step>>


(***************************************************************************)
(* AABB                                                                    *)
(***************************************************************************)

Axes == 1..3

\* glam::Vec3 from its three components.
Vec3(f) == <<f[1], f[2], f[3]>>

Min(a, b) == IF a <= b THEN a ELSE b
Max(a, b) == IF a >= b THEN a ELSE b

\* The largest box coordinate the intersect inputs are drawn from.
MaxCoord == 2

\* The largest coordinate of a point handed to containing and expand.
MaxPoint == 1

\* The most points handed to one containing call.
MaxPoints == 3

AABB(start, size) == [start |-> start, size |-> size]

\* AABB::contains: the point lies within the box on every axis.
AABB_contains(aabb, point) ==
    \A i \in Axes : point[i] >= aabb.start[i]
                    /\ point[i] <= aabb.start[i] + aabb.size[i]

\* AABB::expand: per axis, start = min(start, p), then
\* size = max(size, p - start) with the start just written.
AABB_expand(aabb, point) ==
    LET start == Vec3([i \in Axes |-> Min(aabb.start[i], point[i])])
    IN  [start |-> start,
         size  |-> Vec3([i \in Axes |-> Max(aabb.size[i], point[i] - start[i])])]

\* AABB::containing: the first point with size 0, expanded by the others.
RECURSIVE AABB_expand_all(_, _)
AABB_expand_all(aabb, points) ==
    IF points = <<>> THEN aabb
    ELSE LET expanded == AABB_expand(aabb, Head(points))
         IN  Strict(expanded, AABB_expand_all(expanded, Tail(points)))

AABB_containing(points) ==
    IF points = <<>> THEN AABB(<<0, 0, 0>>, <<0, 0, 0>>)
    ELSE AABB_expand_all(AABB(Head(points), <<0, 0, 0>>), Tail(points))

\* AABB::calculate_corners: the 8 corners in Z-order (size is not negative).
AABB_calculate_corners(aabb) ==
    Tabulated([c \in Indices |->
        Vec3([i \in Axes |-> aabb.start[i] + aabb.size[i] * CUBE_CORNERS[c][i]])])

\* Affine3A::transform_point3: matrix times point plus translation.
transform_point3(t, p) ==
    Vec3([i \in Axes |-> t.m[i][1] * p[1] + t.m[i][2] * p[2] + t.m[i][3] * p[3]
                    + t.t[i]])

\* AABB::transformed: the box containing the 8 transformed corners, given
\* in corner order.
TransformedCorners(aabb, t) ==
    Tabulated([c \in 1..8 |-> transform_point3(t, AABB_calculate_corners(aabb)[c - 1])])

AABB_transformed(aabb, t) == AABB_containing(TransformedCorners(aabb, t))

\* The axis rule with ContainedBy tested before Contains.
AxisIntersect_contained_first(this, other) ==
    IF this[1] >= other[2] \/ this[2] <= other[1]
    THEN [type |-> "DoesNotIntersect"]
    ELSE IF this[1] >= other[1] /\ this[2] <= other[2]
    THEN [type |-> "ContainedBy"]
    ELSE IF this[1] <= other[1] /\ this[2] >= other[2]
    THEN [type |-> "Contains"]
    ELSE [type |-> "Intersects",
          start |-> Max(this[1], other[1]), end |-> Min(this[2], other[2])]

\* One axis of AABB::intersect on (start, end) pairs.
AxisIntersect(this, other) ==
    IF this[1] >= other[2] \/ this[2] <= other[1]
    THEN [type |-> "DoesNotIntersect"]
    ELSE IF this[1] <= other[1] /\ this[2] >= other[2]
    THEN [type |-> "Contains"]
    ELSE IF (this[1] >= other[1] /\ this[2] < other[2])
            \/ (this[1] > other[1] /\ this[2] <= other[2])
    THEN [type |-> "ContainedBy"]
    ELSE [type |-> "Intersects",
          start |-> Max(this[1], other[1]), end |-> Min(this[2], other[2])]

\* AABB::intersect: the axes one at a time, then the match on the three.
AABB_intersect(self, other) ==
    LET ax == Vec3([i \in Axes |->
                 AxisIntersect(<<self.start[i], self.start[i] + self.size[i]>>,
                               <<other.start[i], other.start[i] + other.size[i]>>)])
        range(i) ==
            IF ax[i].type = "Intersects"
            THEN <<ax[i].start, ax[i].end - ax[i].start>>
            ELSE IF ax[i].type = "Contains"
            THEN <<other.start[i], other.size[i]>>
            ELSE <<self.start[i], self.size[i]>>
    IN  IF \A i \in Axes : ax[i].type = "Contains"
        THEN [type |-> "Contains"]
        ELSE IF \A i \in Axes : ax[i].type = "ContainedBy"
        THEN [type |-> "ContainedBy"]
        ELSE IF \E i \in Axes : ax[i].type = "DoesNotIntersect"
        THEN [type |-> "DoesNotIntersect"]
        ELSE [type |-> "Intersects",
              aabb |-> AABB(Vec3([i \in Axes |-> range(i)[1]]),
                            Vec3([i \in Axes |-> range(i)[2]]))]

\* Grid steps per metre: the corners of every octant down to the deepest
\* OctantKey level are grid points.
Unit == 2 ^ OctantKeyMaxDepth

\* AABB::ONE_CUBIC_METER: from (0,0,0) to (1,1,1).
ONE_CUBIC_METER == AABB(<<0, 0, 0>>, <<Unit, Unit, Unit>>)

\* AABB::from_radius: centred on pos, with edges of radius * 2.
AABB_from_radius(pos, radius) ==
    AABB(Vec3([i \in Axes |-> pos[i] - radius]), Vec3([i \in Axes |-> radius * 2]))

\* AABB::octree_child: octant index of the box, of half its size.
AABB_octree_child(self, index) ==
    LET half_size == Vec3([i \in Axes |-> self.size[i] \div 2])
    IN  AABB(Vec3([i \in Axes |-> self.start[i] + half_size[i] * CUBE_CORNERS[index][i]]),
             half_size)

\* octree_subdivide with the octants offset by the whole size.
AABB_octree_subdivide_by_size(self) ==
    LET half_size == Vec3([i \in Axes |-> self.size[i] \div 2])
    IN  Tabulated([c \in Indices |->
            AABB(Vec3([i \in Axes |-> self.start[i] + self.size[i] * CUBE_CORNERS[c][i]]),
                 half_size)])

\* AABB::octree_subdivide: the 8 octants in Z-order.
AABB_octree_subdivide(self) ==
    LET half_size == Vec3([i \in Axes |-> self.size[i] \div 2])
    IN  Tabulated([c \in Indices |->
            AABB(Vec3([i \in Axes |-> self.start[i] + half_size[i] * CUBE_CORNERS[c][i]]),
                 half_size)])

\* The boxes that are subdivided: their sizes are whole numbers of two grid
\* steps, so that half a size is on the grid.
SubdividedBoxes ==
    {AABB(st, sz) : st \in [Axes -> (-MaxPoint)..MaxPoint],
                    sz \in [Axes -> {2 * n : n \in 0..MaxCoord}]}

\* The one AABB::octree_subdivide call, with the octree_child calls on the
\* same box.
OctreeSubdivide ==
    /\ ~sub.called
    /\ \E b \in SubdividedBoxes :
        /\ sub' = [called |-> TRUE, aabb |-> b,
                   cells |-> AABB_octree_subdivide(b),
                   child |-> Tabulated([i \in Indices |-> AABB_octree_child(b, i)])]
        /\ UNCHANGED <<okey, tkey, isect, cont, act, zeroMin, naive, omap, refined, mesh, par, mcube, geom, morton, arena, step>>

\* The boxes of positive size that intersect is applied to.
Boxes ==
    {AABB(st, sz) : st \in [Axes -> 0..(MaxCoord - 1)], sz \in [Axes -> 1..MaxCoord]}

Points == [Axes -> 0..MaxPoint]

\* Affine transforms with integer entries: identity, a translation, a
\* uniform scale, the reflection of x and the quarter turn about z.
Diag(a, b, c) == <<<<a, 0, 0>>, <<0, b, 0>>, <<0, 0, c>>>>

Transforms ==
    { [m |-> Diag(1, 1, 1),  t |-> <<0, 0, 0>>],
      [m |-> Diag(1, 1, 1),  t |-> <<3, 3, 3>>],
      [m |-> Diag(5, 5, 5),  t |-> <<3, 3, 3>>],
      [m |-> Diag(-1, 1, 1), t |-> <<0, 0, 0>>],
      [m |-> <<<<0, -1, 0>>, <<1, 0, 0>>, <<0, 0, 1>>>>, t |-> <<0, 0, 0>>] }

\* a.intersect(b) and b.intersect(a) for one pair of boxes.
Intersect ==
    \E a \in Boxes, b \in Boxes :
        /\ ~isect.called
        /\ isect' = [called |-> TRUE, a |-> a, b |-> b,
                     ab |-> AABB_intersect(a, b), ba |-> AABB_intersect(b, a)]
        /\ UNCHANGED <<okey, tkey, cont, act, zeroMin, naive, omap, refined, sub, mesh, par, mcube, geom, morton, arena, step>>

\* AABB::containing, one point at a time: the first point, then expand.
ContainingFirst ==
    \E p \in Points :
        /\ cont.points = <<>>
        /\ cont' = [aabb |-> AABB_containing(<<p>>), points |-> <<p>>]
        /\ UNCHANGED <<okey, tkey, isect, act, zeroMin, naive, omap, refined, sub, mesh, par, mcube, geom, morton, arena, step>>

Expand ==
    \E p \in Points :
        /\ cont.points # <<>>
        /\ Len(cont.points) < MaxPoints
        /\ cont' = [aabb |-> AABB_expand(cont.aabb, p),
                    points |-> Append(cont.points, p)]
        /\ UNCHANGED <<okey, tkey, isect, act, zeroMin, naive, omap, refined, sub, mesh, par, mcube, geom, morton, arena, step>>

Transformed ==
    \E b \in {ONE_CUBIC_METER, AABB(<<-1, -1, -1>>, <<2, 2, 2>>)}, t \in Transforms :
        /\ cont.points = <<>>
        /\ cont' = [aabb |-> AABB_transformed(b, t),
                    points |-> TransformedCorners(b, t)]
        /\ UNCHANGED <<okey, tkey, isect, act, zeroMin, naive, omap, refined, sub, mesh, par, mcube, geom, morton, arena, step>>


(***************************************************************************)
(* Densities and Action                                                    *)
(*                                                                         *)
(* A density is an f32 in [-1, 1], modelled in fixed point: the number     *)
(* x / DensityOne is the integer F(x) = 2x, and -0.0 is the odd integer    *)
(* just below F(0), so that the integer order is the order of the floats   *)
(* with -0.0 below +0.0 and the sign bit is "negative as an integer".      *)
(* Comparisons go through Num, under which the two zeros are equal.        *)
(***************************************************************************)

\* Fixed-point steps per 1.0 of density: 2^DensityBits.
DensityBits == 3

DensityOne == 2 ^ DensityBits

F(x) == 2 * x
NegZero == F(0) - 1
Num(e) == IF e = NegZero THEN 0 ELSE e \div 2

\* Every density of the model: the steps of [-1, 1] and -0.0.
Densities == {F(x) : x \in (-DensityOne)..DensityOne} \cup {NegZero}

f32_gt(a, b) == Num(a) > Num(b)
f32_neg(a) == IF a = F(0) THEN NegZero ELSE IF a = NegZero THEN F(0) ELSE -a

\* f32::signum is 1.0 for +0.0 and -1.0 for -0.0; is_sign_negative likewise.
f32_signum(a) == IF a >= F(0) THEN 1 ELSE -1
f32_is_sign_negative(a) == a < F(0)

\* f32::min: the smaller number; of two zeros of opposite sign, the one the
\* build returns.
f32_min(self, other) ==
    IF Num(self) < Num(other) THEN self
    ELSE IF Num(other) < Num(self) THEN other
    ELSE IF zeroMin = "self" THEN self ELSE other

\* Remove as the spec words it: min(point, -val).
Action_Remove_min_neg(point, val) == f32_min(point, f32_neg(val))

\* Action::apply_value, the Remove arm.
Action_Remove(point, val) ==
    IF f32_gt(val, F(0)) THEN F(-DensityOne)
    ELSE IF f32_gt(val, F(-DensityOne))
    THEN IF f32_gt(point, F(0)) THEN f32_min(point, f32_neg(val))
         ELSE f32_min(point, val)
    ELSE point

\* Place that moves the density halfway to a larger tool value.
Action_Place_halfway(point, val) ==
    IF f32_gt(val, point)
    THEN F(Num(point) + ((Num(val) - Num(point)) \div 2))
    ELSE point

\* Action::apply_value, the Place arm.
Action_Place(point, val) == IF f32_gt(val, point) THEN val ELSE point

\* Action::apply_value: the new value of *point.
Action_apply_value(action, point, val) ==
    IF action = "Place" THEN Action_Place(point, val)
    ELSE Action_Remove(point, val)

Actions == {"Place", "Remove"}

\* One apply_value call on the density held in act.
ApplyValue ==
    \E a \in Actions, v \in Densities :
        /\ act' = [action |-> a, old |-> act.point, val |-> v,
                   point |-> Action_apply_value(a, act.point, v)]
        /\ UNCHANGED <<okey, tkey, isect, cont, zeroMin, naive, omap, refined, sub, mesh, par, mcube, geom, morton, arena, step>>

(***************************************************************************)
(* utils::subdivide_cell                                                   *)
(***************************************************************************)

\* lerp with the weight 0.0 for 0.5: self.
Lerp_to_start(a, b) == F(Num(a))

\* f32::lerp(other, 0.5) = self + (other - self) * 0.5: the midpoint, which
\* is +0.0 whenever it is zero.
Lerp(a, b) == F(Num(a) + ((Num(b) - Num(a)) \div 2))

\* utils::subdivide_cell: the 27 points of the 3x3x3 grid, indexed x first,
\* then y, then z, and the 8 cells cut from them.
subdivide_cell(cell) ==
    LET p0  == cell[0]
        p2  == cell[1]
        p6  == cell[2]
        p8  == cell[3]
        p18 == cell[4]
        p20 == cell[5]
        p24 == cell[6]
        p26 == cell[7]
        p1  == Lerp(p0, p2)
        p3  == Lerp(p0, p6)
        p5  == Lerp(p2, p8)
        p7  == Lerp(p6, p8)
        p9  == Lerp(p0, p18)
        p11 == Lerp(p2, p20)
        p15 == Lerp(p6, p24)
        p17 == Lerp(p8, p26)
        p19 == Lerp(p18, p20)
        p21 == Lerp(p18, p24)
        p23 == Lerp(p20, p26)
        p25 == Lerp(p24, p26)
        p4  == Lerp(p1, p7)
        p10 == Lerp(p9, p11)
        p12 == Lerp(p3, p21)
        p14 == Lerp(p5, p23)
        p16 == Lerp(p7, p25)
        p22 == Lerp(p19, p25)
        p13 == Lerp(p4, p22)
        points == <<p0, p1, p2, p3, p4, p5, p6, p7, p8, p9, p10, p11, p12, p13,
                    p14, p15, p16, p17, p18, p19, p20, p21, p22, p23, p24, p25,
                    p26>>
        offset == <<0, 1, 3, 4, 9, 10, 12, 13>>
        make_cell(start_index) ==
            Tabulated([i \in Indices |-> points[start_index + offset[i + 1] + 1]])
    IN  Tabulated([k \in Indices |-> make_cell(offset[k + 1])])

\* The cells that are subdivided: their corners are -1.0, 0.0 or 1.0, whose
\* means over 2, 4 and 8 corners are exact; and the cell of -0.0.
ExactDensities == {F(-DensityOne), F(0), F(DensityOne)}
SubdividedCells ==
    [Indices -> ExactDensities] \cup {Tabulated([i \in Indices |-> NegZero])}

\* The one utils::subdivide_cell call.
SubdivideCell ==
    /\ ~refined.called
    /\ \E c \in SubdividedCells :
        /\ refined' = [called |-> TRUE, cell |-> c, children |-> subdivide_cell(c)]
        /\ UNCHANGED <<okey, tkey, isect, cont, act, zeroMin, naive, omap, sub, mesh, par, mcube, geom, morton, arena, step>>

(***************************************************************************)
(* Tools                                                                   *)
(*                                                                         *)
(* A tool is an input of the library.  The tools here are shaped as        *)
(* tool/sphere.rs shapes Sphere (an origin and a radius, density falling   *)
(* off by the distance to the surface, boxes from_radius) with the largest *)
(* coordinate difference taken for the Euclidean length, which keeps the   *)
(* values on the grid; each declares itself convex or concave.             *)
(***************************************************************************)

Abs(x) == IF x < 0 THEN -x ELSE x

\* The distance of pos from origin.
Distance(pos, origin) ==
    Max(Max(Abs(pos[1] - origin[1]), Abs(pos[2] - origin[2])),
        Abs(pos[3] - origin[3]))

\* Whether the tool's value depends on the position only: an implementation
\* of the older trait that makes no use of its scale argument.
Brush_ignores_scale(self) == "by_position" \in DOMAIN self

\* Tool::value(pos, scale) of the older trait, as Sphere implements it:
\* ((radius - distance) / scale).clamp(-1.0, 1.0), scale in grid steps; and
\* as a tool of position only implements it, over one metre at every scale.
Brush_value(self, pos, scale) ==
    LET x == self.radius - Distance(pos, self.origin)
        over == IF Brush_ignores_scale(self) THEN Unit ELSE scale
    IN  IF x >= over THEN F(DensityOne)
        ELSE IF x <= -over THEN F(-DensityOne)
        ELSE F((x * DensityOne) \div over)

Brush_tool_aabb(self) == AABB_from_radius(self.origin, self.radius)
Brush_aoe_aabb(self) == AABB_from_radius(self.origin, self.radius + Unit)
Brush_is_concave(self) == self.concave
\* The default method of the trait.
Brush_is_convex(self) == ~Brush_is_concave(self)

\* ToolFunc::value(pos): the same falloff over one metre.
ToolFunc_value(self, pos) == Brush_value(self, pos, Unit)

Quarter == Unit \div 4

Brush(origin, radius, concave) ==
    [origin |-> origin, radius |-> radius, concave |-> concave]

\* The tools applied: inside the terrain, covering it, far from it, near it
\* (only the area of effect reaches it), on its corner, a concave one, and
\* one inside an octant of the terrain that holds none of the corners of the
\* octants.
Brushes ==
    { Brush(<<2 * Quarter, 2 * Quarter, 2 * Quarter>>, Quarter, FALSE),
      Brush(<<Quarter, Quarter, Quarter>>, Quarter \div 2, FALSE),
      Brush(<<2 * Quarter, 2 * Quarter, 2 * Quarter>>, 4 * Quarter, FALSE),
      Brush(<<-8 * Quarter, -8 * Quarter, -8 * Quarter>>, Quarter, FALSE),
      Brush(<<-2 * Quarter, -2 * Quarter, -2 * Quarter>>, Quarter, FALSE),
      Brush(<<0, 0, 0>>, 2 * Quarter, FALSE),
      Brush(<<2 * Quarter, 2 * Quarter, 2 * Quarter>>, Quarter, TRUE) }

Identity == [m |-> Diag(1, 1, 1), t |-> <<0, 0, 0>>]

\* Tool::new(func): the ToolFunc with the identity transform.
Tool_new(func) == [func |-> func, transform |-> Identity, inverse |-> Identity]

\* Tool::value: the ToolFunc at the position carried into its frame.
Tool_value(self, pos) ==
    ToolFunc_value(self.func, transform_point3(self.inverse, pos))

\* Tool::tool_aabb and Tool::aoe_aabb: the ToolFunc's box, transformed.
Tool_tool_aabb(self) == AABB_transformed(Brush_tool_aabb(self.func), self.transform)
Tool_aoe_aabb(self) == AABB_transformed(Brush_aoe_aabb(self.func), self.transform)
Tool_is_concave(self) == Brush_is_concave(self.func)
Tool_is_convex(self) == Brush_is_convex(self.func)

Tools == {Tool_new(func) : func \in Brushes}

\* The largest max_depth argument of an apply_tool call.
MaxDepthArg == 1

\* The number of apply_tool calls made on one terrain.
MaxCalls == 2

(***************************************************************************)
(* NaiveOctree                                                             *)
(*                                                                         *)
(* A NaiveOctreeCell is its 8 corner values and its children: <<>> for     *)
(* None, the 8 child cells in Z-order for Some.                            *)
(***************************************************************************)

NaiveOctreeCell_default ==
    [values |-> Tabulated([i \in Indices |-> F(-DensityOne)]), children |-> <<>>]

NaiveOctreeCell_subdivide_cell(self) ==
    IF self.children # <<>> THEN self
    ELSE LET points == subdivide_cell(self.values)
         IN  [self EXCEPT !.children =
                 Tabulated([c \in 1..8 |->
                     [values |-> points[c - 1], children |-> <<>>]])]

NaiveOctreeCell_collapse_cell(self) == [self EXCEPT !.children = <<>>]

NaiveOctreeCell_is_leaf(self) == self.children = <<>>

\* windows(2).any(signum differs)
NaiveOctreeCell_intersects_surface(self) ==
    \E i \in 0..6 : f32_signum(self.values[i]) # f32_signum(self.values[i + 1])

\* The guard of the subdivision with the depth test made inclusive.
NaiveOctreeCell_may_subdivide_inclusive(self, current_depth, max_depth) ==
    self.children = <<>> /\ current_depth <= max_depth

\* apply_tool_impl, the guard of the subdivision:
\* self.children.is_none() && current_depth < max_depth.
NaiveOctreeCell_may_subdivide(self, current_depth, max_depth) ==
    self.children = <<>> /\ current_depth < max_depth

\* apply_tool_impl that subdivides for a convex tool on ContainedBy alone.
NaiveOctreeCell_apply_tool_impl_contained_only(self, tool, tool_aabb, aoe_aabb, action, cell_aabb, current_depth, max_depth) ==
    LET corners == AABB_calculate_corners(cell_aabb)
        newvals == Tabulated([i \in Indices |->
                      Action_apply_value(action, self.values[i],
                                         Tool_value(tool, corners[i]))])
        diff_signs == \E i \in 0..6 :
                          f32_signum(newvals[i]) # f32_signum(newvals[i + 1])
        check_aabb == IF action = "Remove" THEN aoe_aabb ELSE tool_aabb
        subdivided ==
            IF /\ NaiveOctreeCell_may_subdivide(self, current_depth, max_depth)
               /\ \/ /\ Tool_is_convex(tool)
                     /\ \/ diff_signs
                        \/ AABB_intersect(check_aabb, cell_aabb).type = "ContainedBy"
                  \/ /\ Tool_is_concave(tool)
                     /\ AABB_intersect(aoe_aabb, cell_aabb).type
                          # "DoesNotIntersect"
            THEN NaiveOctreeCell_subdivide_cell(self)
            ELSE self
    IN  [subdivided EXCEPT !.values = newvals]

\* apply_tool_impl with the new values stored before the subdivision, so
\* that the children are interpolated from them.
NaiveOctreeCell_apply_tool_impl_commit_first(self, tool, tool_aabb, aoe_aabb, action, cell_aabb, current_depth, max_depth) ==
    LET corners == AABB_calculate_corners(cell_aabb)
        newvals == Tabulated([i \in Indices |->
                      Action_apply_value(action, self.values[i],
                                         Tool_value(tool, corners[i]))])
        diff_signs == \E i \in 0..6 :
                          f32_signum(newvals[i]) # f32_signum(newvals[i + 1])
        check_aabb == IF action = "Remove" THEN aoe_aabb ELSE tool_aabb
        committed == [self EXCEPT !.values = newvals]
    IN  IF /\ NaiveOctreeCell_may_subdivide(self, current_depth, max_depth)
           /\ \/ /\ Tool_is_convex(tool)
                 /\ \/ diff_signs
                    \/ AABB_intersect(check_aabb, cell_aabb).type
                         \in {"ContainedBy", "Intersects"}
              \/ /\ Tool_is_concave(tool)
                 /\ AABB_intersect(aoe_aabb, cell_aabb).type
                      # "DoesNotIntersect"
        THEN NaiveOctreeCell_subdivide_cell(committed)
        ELSE committed

\* apply_tool_impl: the new values are computed from the old, the cell is
\* subdivided (from the old values) if need be, then the new values are
\* stored.
NaiveOctreeCell_apply_tool_impl(self, tool, tool_aabb, aoe_aabb, action, cell_aabb, current_depth, max_depth) ==
    LET corners == AABB_calculate_corners(cell_aabb)
        newvals == Tabulated([i \in Indices |->
                      Action_apply_value(action, self.values[i],
                                         Tool_value(tool, corners[i]))])
        diff_signs == \E i \in 0..6 :
                          f32_signum(newvals[i]) # f32_signum(newvals[i + 1])
        check_aabb == IF action = "Remove" THEN aoe_aabb ELSE tool_aabb
        subdivided ==
            IF /\ NaiveOctreeCell_may_subdivide(self, current_depth, max_depth)
               /\ \/ /\ Tool_is_convex(tool)
                     /\ \/ diff_signs
                        \/ AABB_intersect(check_aabb, cell_aabb).type
                             \in {"ContainedBy", "Intersects"}
                  \/ /\ Tool_is_concave(tool)
                     /\ AABB_intersect(aoe_aabb, cell_aabb).type
                          # "DoesNotIntersect"
            THEN NaiveOctreeCell_subdivide_cell(self)
            ELSE self
    IN  [subdivided EXCEPT !.values = newvals]

\* apply_tool that stops at the cell it is called on.
NaiveOctreeCell_apply_tool_this_cell_only(self, tool, tool_aabb, aoe_aabb, action, cell_aabb, current_depth, max_depth) ==
    NaiveOctreeCell_apply_tool_impl(self, tool, tool_aabb, aoe_aabb, action,
                                    cell_aabb, current_depth, max_depth)

\* NaiveOctreeCell::apply_tool: this cell, then each child in its octant of
\* the box, then the collapse if every child is a leaf off the surface.
RECURSIVE NaiveOctreeCell_apply_tool(_, _, _, _, _, _, _, _)
NaiveOctreeCell_apply_tool(self, tool, tool_aabb, aoe_aabb, action, cell_aabb, current_depth, max_depth) ==
    LET applied == NaiveOctreeCell_apply_tool_impl(self, tool, tool_aabb,
                       aoe_aabb, action, cell_aabb, current_depth, max_depth)
    IN  IF applied.children = <<>> THEN applied
        ELSE LET child_aabbs == AABB_octree_subdivide(cell_aabb)
                 children ==
                     Tabulated([c \in 1..8 |->
                        NaiveOctreeCell_apply_tool(applied.children[c], tool,
                            tool_aabb, aoe_aabb, action, child_aabbs[c - 1],
                            current_depth + 1, max_depth)])
             IN  IF \A c \in 1..8 :
                        /\ NaiveOctreeCell_is_leaf(children[c])
                        /\ ~NaiveOctreeCell_intersects_surface(children[c])
                 THEN NaiveOctreeCell_collapse_cell(applied)
                 ELSE [applied EXCEPT !.children = children]

\* The depth of the deepest cell below (and including) self.
RECURSIVE NaiveOctreeCell_depth(_)
NaiveOctreeCell_depth(self) ==
    IF self.children = <<>> THEN 0
    ELSE LET below == {NaiveOctreeCell_depth(self.children[c]) : c \in 1..8}
         IN  1 + CHOOSE d \in below : \A e \in below : e <= d

\* The terrain's box: from the origin, scale along each axis.
NaiveOctree_terrain_aabb(self) ==
    AABB(<<0, 0, 0>>, <<self.scale, self.scale, self.scale>>)

\* NaiveOctree::new(1.0)
NaiveOctree_new == [root |-> NaiveOctreeCell_default, scale |-> Unit]

\* NaiveOctree::_apply_tool: the tool's boxes are cut to the terrain, and
\* the call returns at once when the tool cannot affect the terrain;
\* applied tells whether the root's apply_tool was called.
NaiveOctree__apply_tool(self, tool, action, max_depth) ==
    LET terrain_aabb == NaiveOctree_terrain_aabb(self)
        aoe_isect == AABB_intersect(terrain_aabb, Tool_aoe_aabb(tool))
        aoe_aabb == IF aoe_isect.type = "Intersects" THEN aoe_isect.aabb
                    ELSE IF aoe_isect.type = "ContainedBy" THEN terrain_aabb
                    ELSE Tool_aoe_aabb(tool)
        tool_isect == AABB_intersect(terrain_aabb, Tool_tool_aabb(tool))
        tool_aabb == IF tool_isect.type = "Intersects" THEN tool_isect.aabb
                     ELSE IF tool_isect.type = "ContainedBy" THEN terrain_aabb
                     ELSE Tool_tool_aabb(tool)
    IN  IF aoe_isect.type = "DoesNotIntersect"
        THEN [root |-> self.root, applied |-> FALSE]
        ELSE IF tool_isect.type = "DoesNotIntersect" /\ action = "Place"
        THEN [root |-> self.root, applied |-> FALSE]
        ELSE [root |-> NaiveOctreeCell_apply_tool(self.root, tool, tool_aabb,
                           aoe_aabb, action, terrain_aabb, 0, max_depth),
              applied |-> TRUE]

\* One NaiveOctree::apply_tool call.  Beside the octree the state keeps the
\* call's arguments, the root as it was before the call, the largest
\* max_depth given so far and the number of calls.
NaiveApplyTool ==
    \E tool \in Tools, action \in Actions, max_depth \in 0..MaxDepthArg :
        /\ naive.calls < MaxCalls
        /\ LET result == NaiveOctree__apply_tool(naive.tree, tool, action, max_depth)
           IN  naive' = [tree |-> [naive.tree EXCEPT !.root = result.root],
                         applied |-> result.applied,
                         tool |-> tool, action |-> action,
                         max_depth |-> max_depth,
                         old |-> naive.tree.root,
                         deepest_arg |-> Max(naive.deepest_arg, max_depth),
                         calls |-> naive.calls + 1]
        /\ UNCHANGED <<okey, tkey, isect, cont, act, zeroMin, omap, refined, sub, mesh, par, mcube, geom, morton, arena, step>>

(***************************************************************************)
(* NaiveOctree::par_apply_tool                                             *)
(*                                                                         *)
(* The call is a fork-join over the octree: the task of a cell runs        *)
(* apply_tool_impl on it and, if the cell then has children, forks the     *)
(* tasks of the 8 children (par_iter_mut) and waits for them; when they    *)
(* are done it makes the collapse check.  Every task owns its cell (&mut), *)
(* so a task's step on its cell is atomic for the others.  A cell is named *)
(* by its path, the child numbers 1..8 from the root down.  pending holds  *)
(* the tasks not yet run, joining the cells waiting for their children.    *)
(***************************************************************************)

\* The cell at the end of a path, and the octree with that cell replaced.
RECURSIVE CellAt(_, _)
CellAt(cell, path) ==
    IF path = <<>> THEN cell
    ELSE CellAt(cell.children[Head(path)], Tail(path))

RECURSIVE CellReplaced(_, _, _)
CellReplaced(cell, path, new) ==
    IF path = <<>> THEN new
    ELSE [cell EXCEPT !.children[Head(path)] = CellReplaced(@, Tail(path), new)]

\* The box of the cell at the end of a path: octree_subdivide at each fork.
RECURSIVE CellAABB(_, _)
CellAABB(aabb, path) ==
    IF path = <<>> THEN aabb
    ELSE CellAABB(AABB_octree_subdivide(aabb)[Head(path) - 1], Tail(path))

\* The collapse check after the children: never.
ParCollapsible_never(self) == FALSE

\* The collapse check after the children:
\* children.iter().all(|child| child.is_leaf() && !child.intersects_surface())
ParCollapsible(self) ==
    \A c \in 1..8 :
        /\ NaiveOctreeCell_is_leaf(self.children[c])
        /\ ~NaiveOctreeCell_intersects_surface(self.children[c])

\* NaiveOctree::_par_apply_tool up to the call on the root: the boxes cut to
\* the terrain and whether the call returns at once.
NaiveOctree__par_apply_tool(self, tool, action) ==
    LET terrain_aabb == NaiveOctree_terrain_aabb(self)
        tool_isect == AABB_intersect(terrain_aabb, Tool_tool_aabb(tool))
        tool_aabb == IF tool_isect.type = "Intersects" THEN tool_isect.aabb
                     ELSE IF tool_isect.type = "ContainedBy" THEN terrain_aabb
                     ELSE Tool_tool_aabb(tool)
        aoe_isect == AABB_intersect(terrain_aabb, Tool_aoe_aabb(tool))
        aoe_aabb == IF aoe_isect.type = "Intersects" THEN aoe_isect.aabb
                    ELSE IF aoe_isect.type = "ContainedBy" THEN terrain_aabb
                    ELSE Tool_aoe_aabb(tool)
    IN  [returns |-> \/ tool_isect.type = "DoesNotIntersect" /\ action = "Place"
                     \/ aoe_isect.type = "DoesNotIntersect",
         tool_aabb |-> tool_aabb, aoe_aabb |-> aoe_aabb]

ParRunning == par.pending # {} \/ par.joining # {}

\* NaiveOctree::par_apply_tool is called: the root's task is forked unless
\* the call returns at once.  sequential is what NaiveOctree::apply_tool
\* makes of the same octree with the same arguments, call the number of
\* this call among the calls on the octree.
ParApplyTool ==
    \E tool \in Tools, action \in Actions, max_depth \in 0..MaxDepthArg :
        /\ naive.calls < MaxCalls
        /\ ~ParRunning
        /\ LET cut == NaiveOctree__par_apply_tool(naive.tree, tool, action)
           IN  /\ par' = [called |-> TRUE, call |-> naive.calls + 1,
                          pending |-> IF cut.returns THEN {} ELSE {<<>>},
                          joining |-> {},
                          tool_aabb |-> cut.tool_aabb, aoe_aabb |-> cut.aoe_aabb,
                          sequential |-> NaiveOctree__apply_tool(naive.tree, tool,
                                             action, max_depth).root]
               /\ naive' = [naive EXCEPT !.applied = ~cut.returns,
                                         !.tool = tool, !.action = action,
                                         !.max_depth = max_depth,
                                         !.old = naive.tree.root,
                                         !.deepest_arg = Max(@, max_depth),
                                         !.calls = @ + 1]
        /\ UNCHANGED <<okey, tkey, isect, cont, act, zeroMin, omap, refined, sub, mesh, mcube, geom, morton, arena, step>>

\* One pending task runs: apply_tool_impl on its cell, then the fork of the
\* children's tasks if the cell has children.
ParTask ==
    \E path \in par.pending :
        LET applied == NaiveOctreeCell_apply_tool_impl(
                           CellAt(naive.tree.root, path), naive.tool,
                           par.tool_aabb, par.aoe_aabb, naive.action,
                           CellAABB(NaiveOctree_terrain_aabb(naive.tree), path),
                           Len(path), naive.max_depth)
        IN  /\ naive' = [naive EXCEPT !.tree.root = CellReplaced(@, path, applied)]
            /\ par' = IF applied.children = <<>>
                      THEN [par EXCEPT !.pending = @ \ {path}]
                      ELSE [par EXCEPT
                              !.pending = (@ \ {path}) \cup
                                          {Append(path, c) : c \in 1..8},
                              !.joining = @ \cup {path}]
            /\ UNCHANGED <<okey, tkey, isect, cont, act, zeroMin, omap, refined, sub, mesh, mcube, geom, morton, arena, step>>

\* The tasks of a cell's children are all done: the collapse check.
ParJoin ==
    \E path \in par.joining :
        /\ \A c \in 1..8 : Append(path, c) \notin par.pending \cup par.joining
        /\ LET self == CellAt(naive.tree.root, path)
           IN  naive' = [naive EXCEPT !.tree.root =
                            IF ParCollapsible(self)
                            THEN CellReplaced(@, path, NaiveOctreeCell_collapse_cell(self))
                            ELSE @]
        /\ par' = [par EXCEPT !.joining = @ \ {path}]
        /\ UNCHANGED <<okey, tkey, isect, cont, act, zeroMin, omap, refined, sub, mesh, mcube, geom, morton, arena, step>>

\* A NaiveOctree::apply_tool call between the parallel ones (&mut self: not
\* while one is running).
SequentialApplyTool == ~ParRunning /\ NaiveApplyTool

(***************************************************************************)
(* NaiveOctree meshes                                                      *)
(*                                                                         *)
(* A mesh is kept as the cells handed to march_cube, each with the corners *)
(* of its box and its 8 values: the triangles of a cell are a function of  *)
(* these.  generate_mesh pushes onto a Vec, a list; par_generate_mesh onto *)
(* a Stack shared by the tasks, whose order is the schedule's: a bag.      *)
(***************************************************************************)

\* The largest max_depth of the calls that shape and mesh the octree.
MaxMeshDepth == 2

\* The arguments of one march_cube call.
MarchedCell(self, cell_aabb) ==
    [corners |-> AABB_calculate_corners(cell_aabb), values |-> self.values]

\* NaiveOctreeCell::generate_mesh: faces with the cells marched below self
\* appended.  The loop's state is the faces so far and the next child.
RECURSIVE NaiveOctreeCell_generate_mesh(_, _, _, _, _)
NaiveOctreeCell_generate_mesh(self, faces, current_depth, max_depth, cell_aabb) ==
    IF current_depth < max_depth /\ self.children # <<>>
    THEN LET child_aabbs == AABB_octree_subdivide(cell_aabb)
             RECURSIVE for_each(_)
             for_each(loop) ==
                 IF loop.c > 8 THEN loop.faces
                 ELSE for_each([faces |-> NaiveOctreeCell_generate_mesh(
                                              self.children[loop.c], loop.faces,
                                              current_depth + 1, max_depth,
                                              child_aabbs[loop.c - 1]),
                                c |-> loop.c + 1])
         IN  for_each([faces |-> faces, c |-> 1])
    ELSE Append(faces, MarchedCell(self, cell_aabb))

\* NaiveOctreeCell::par_generate_mesh: the cells marched below self, which
\* the tasks push onto the shared Stack.  Each child is called with
\* current_depth, not current_depth + 1.
RECURSIVE NaiveOctreeCell_par_generate_mesh(_, _, _, _)
NaiveOctreeCell_par_generate_mesh(self, current_depth, max_depth, cell_aabb) ==
    IF current_depth < max_depth /\ self.children # <<>>
    THEN LET child_aabbs == AABB_octree_subdivide(cell_aabb)
             RECURSIVE for_each(_)
             for_each(loop) ==
                 IF loop.c > 8 THEN loop.bag
                 ELSE for_each([bag |-> loop.bag (+)
                                            NaiveOctreeCell_par_generate_mesh(
                                                self.children[loop.c],
                                                current_depth, max_depth,
                                                child_aabbs[loop.c - 1]),
                                c |-> loop.c + 1])
         IN  for_each([bag |-> EmptyBag, c |-> 1])
    ELSE SetToBag({MarchedCell(self, cell_aabb)})

\* NaiveOctree::generate_mesh and NaiveOctree::par_generate_mesh.
NaiveOctree_generate_mesh(self, max_depth) ==
    NaiveOctreeCell_generate_mesh(self.root, <<>>, 0, max_depth,
                                  NaiveOctree_terrain_aabb(self))
NaiveOctree_par_generate_mesh(self, max_depth) ==
    NaiveOctreeCell_par_generate_mesh(self.root, 0, max_depth,
                                      NaiveOctree_terrain_aabb(self))

\* One NaiveOctree::apply_tool call on the octree that is meshed afterwards.
ShapeOctree ==
    \E tool \in Tools, action \in Actions, max_depth \in 0..MaxMeshDepth :
        /\ naive.calls < MaxCalls
        /\ ~mesh.seq.called /\ ~mesh.par.called
        /\ LET result == NaiveOctree__apply_tool(naive.tree, tool, action, max_depth)
           IN  naive' = [tree |-> [naive.tree EXCEPT !.root = result.root],
                         applied |-> result.applied,
                         tool |-> tool, action |-> action,
                         max_depth |-> max_depth,
                         old |-> naive.tree.root,
                         deepest_arg |-> Max(naive.deepest_arg, max_depth),
                         calls |-> naive.calls + 1]
        /\ UNCHANGED <<okey, tkey, isect, cont, act, zeroMin, omap, refined, sub, mesh, par, mcube, geom, morton, arena, step>>

\* One NaiveOctree::generate_mesh call.
GenerateMesh ==
    \E max_depth \in 0..MaxMeshDepth :
        /\ ~mesh.seq.called
        /\ mesh' = [mesh EXCEPT !.seq =
                       [called |-> TRUE, max_depth |-> max_depth,
                        faces |-> NaiveOctree_generate_mesh(naive.tree, max_depth)]]
        /\ UNCHANGED <<okey, tkey, isect, cont, act, zeroMin, naive, omap, refined, sub, par, mcube, geom, morton, arena, step>>

\* One NaiveOctree::par_generate_mesh call.
ParGenerateMesh ==
    \E max_depth \in 0..MaxMeshDepth :
        /\ ~mesh.par.called
        /\ mesh' = [mesh EXCEPT !.par =
                       [called |-> TRUE, max_depth |-> max_depth,
                        faces |-> NaiveOctree_par_generate_mesh(naive.tree, max_depth)]]
        /\ UNCHANGED <<okey, tkey, isect, cont, act, zeroMin, naive, omap, refined, sub, par, mcube, geom, morton, arena, step>>

(***************************************************************************)
(* OctantMap                                                               *)
(*                                                                         *)
(* The map is its two containers: octants, a function from OctantKey to    *)
(* the 8 corner values, and leaves, a set of keys.  A call that panics     *)
(* stops where the assertion fails: panicked is set and the containers     *)
(* stay as they were at that moment.                                       *)
(***************************************************************************)

\* OctantKey::children, defined when the key is not at its maximum depth.
OctantKey_children(k) == Tabulated([i \in Indices |-> OctantKey_child(k, i)])

\* OctantKey::aabb: ONE_CUBIC_METER narrowed by each index of the key.  The
\* loop's state is the box so far and the level of the next index.
OctantKey_aabb(k) ==
    LET RECURSIVE for_each(_)
        for_each(loop) ==
            IF loop.level > k.depth THEN loop.aabb
            ELSE for_each([aabb |-> AABB_octree_child(loop.aabb,
                                                      k.cells[loop.level]),
                           level |-> loop.level + 1])
    IN  for_each([aabb |-> ONE_CUBIC_METER, level |-> 1])

\* OctantKey::scale: 1.0 / 2^depth, in grid steps.
OctantKey_scale(k) == Unit \div (2 ^ k.depth)

\* OctantMap::new: the root octant, all -1.0, a leaf.
OctantMap_new ==
    [octants |-> (OctantKey_root :> Tabulated([i \in Indices |-> F(-DensityOne)])),
     leaves |-> {OctantKey_root},
     panicked |-> FALSE]

OctantMap_exists(this, cell) == cell \in DOMAIN this.octants

\* has_children pushes 0 onto a copy of the key, which asserts that the key
\* is not at its maximum depth.
OctantMap_has_children_panics(cell) == ~OctantKey_push_ok(cell)
OctantMap_has_children(this, cell) ==
    OctantMap_exists(this, OctantKey_push(cell, 0))

OctantMap_intersects_surface(this, cell) ==
    \E i \in 0..6 : f32_is_sign_negative(this.octants[cell][i])
                    # f32_is_sign_negative(this.octants[cell][i + 1])

\* is_collapsible asks has_children of child 0 first, which panics when the
\* children are at the maximum depth.
OctantMap_is_collapsible_panics(this, cell) ==
    /\ ~OctantKey_at_max_depth(cell)
    /\ OctantMap_has_children(this, cell)
    /\ OctantKey_at_max_depth(OctantKey_child(cell, 0))

OctantMap_is_collapsible(this, cell) ==
    IF OctantKey_at_max_depth(cell) \/ ~OctantMap_has_children(this, cell)
    THEN FALSE
    ELSE ~\E i \in Indices :
            \/ OctantMap_has_children(this, OctantKey_child(cell, i))
            \/ OctantMap_intersects_surface(this, OctantKey_child(cell, i))

\* collapse_cell that leaves the children where they are.
OctantMap_collapse_cell_keeps(this, cell) == this

OctantMap_collapse_cell(this, cell) ==
    IF ~OctantMap_is_collapsible(this, cell) THEN this
    ELSE LET children == {OctantKey_child(cell, i) : i \in Indices}
         IN  [this EXCEPT
                !.leaves = (@ \ children) \cup {cell},
                !.octants = Tabulated([k \in (DOMAIN @) \ children |-> @[k]])]

\* The subdivision that leaves the subdivided octant among the leaves.
OctantMap_subdivide_keeps_leaf(this, cell, values) ==
    IF OctantKey_at_max_depth(cell) \/ OctantMap_has_children(this, cell)
    THEN this
    ELSE LET child_values == subdivide_cell(values)
             children == OctantKey_children(cell)
         IN  [this EXCEPT
                !.leaves = @ \cup {children[i] : i \in Indices},
                !.octants = Tabulated([k \in {children[i] : i \in Indices} |->
                               child_values[k.cells[k.depth]]]) @@ @]

OctantMap_subdivide_with_old_values(this, cell, values) ==
    IF OctantKey_at_max_depth(cell) \/ OctantMap_has_children(this, cell)
    THEN this
    ELSE LET child_values == subdivide_cell(values)
             children == OctantKey_children(cell)
         IN  [this EXCEPT
                !.leaves = (@ \cup {children[i] : i \in Indices}) \ {cell},
                !.octants = Tabulated([k \in {children[i] : i \in Indices} |->
                               child_values[k.cells[k.depth]]]) @@ @]

OctantMap_subdivide_cell(this, cell) ==
    OctantMap_subdivide_with_old_values(this, cell, this.octants[cell])

\* The new values of an octant: the action on each old value and the
\* tool's value at that corner.
OctantNewvals(tool, action, octant, values) ==
    LET aabb == OctantKey_aabb(octant)
        corners == AABB_calculate_corners(aabb)
        scale == OctantKey_scale(octant)
    IN  Strict(aabb, Strict(corners,
            Tabulated([i \in Indices |->
                Action_apply_value(action, values[i],
                                   Brush_value(tool, corners[i], scale))])))

NewvalsIntersect(newvals) ==
    \E i \in 0..6 : f32_is_sign_negative(newvals[i])
                    # f32_is_sign_negative(newvals[i + 1])

\* The test "subdivision is needed" of both implementations, is_leaf being
\* !has_children in the one and leaves.contains in the other.  && binds
\* tighter than ||: the depth tests guard the convex disjunct only.
SubdivisionNeeded(tool, tool_aabb, aoe_aabb, action, max_depth, octant, newvals, is_leaf) ==
    LET aabb == OctantKey_aabb(octant)
        check_aabb == IF action = "Place" THEN tool_aabb ELSE aoe_aabb
        newvals_intersect == NewvalsIntersect(newvals)
    IN  Strict(aabb,
            \/ /\ ~OctantKey_at_max_depth(octant)
               /\ OctantKey_depth(octant) < max_depth
               /\ is_leaf
               /\ Brush_is_convex(tool)
               /\ \/ newvals_intersect
                  \/ AABB_intersect(check_aabb, aabb).type = "ContainedBy"
            \/ /\ Brush_is_concave(tool)
               /\ \/ newvals_intersect
                  \/ AABB_intersect(aoe_aabb, aabb).type # "DoesNotIntersect")

\* apply_tool_recurse, the inner fn apply_tool_at_octant: the octant is
\* subdivided if needed, its new values are inserted, and if it has children
\* the tool is applied to each child in turn and the octant is collapsed if
\* it can be.  A panic in a child ends the call.
RECURSIVE OctantMap_apply_tool_at_octant(_, _, _, _, _, _, _)
OctantMap_apply_tool_at_octant(this, tool, tool_aabb, aoe_aabb, action, max_depth, octant) ==
    LET newvals == OctantNewvals(tool, action, octant, this.octants[octant])
        subdivided ==
            Strict(newvals,
                IF SubdivisionNeeded(tool, tool_aabb, aoe_aabb, action, max_depth,
                       octant, newvals, ~OctantMap_has_children(this, octant))
                THEN OctantMap_subdivide_cell(this, octant)
                ELSE this)
        inserted == [subdivided EXCEPT !.octants[octant] = newvals]
        RECURSIVE each_child(_, _)
        each_child(map, i) ==
            LET applied == OctantMap_apply_tool_at_octant(map, tool, tool_aabb,
                               aoe_aabb, action, max_depth,
                               OctantKey_child(octant, i))
            IN  CASE applied.panicked -> applied
                  [] i < 7 -> each_child(applied, i + 1)
                  [] OctantMap_is_collapsible_panics(applied, octant) ->
                         [applied EXCEPT !.panicked = TRUE]
                  [] OctantMap_is_collapsible(applied, octant) ->
                         OctantMap_collapse_cell(applied, octant)
                  [] OTHER -> applied
    IN  CASE OctantMap_has_children_panics(octant) ->
                 [inserted EXCEPT !.panicked = TRUE]
          [] ~OctantMap_has_children(inserted, octant) -> inserted
          [] OTHER -> each_child(inserted, 0)

\* The tool's box cut to the root's box, as both implementations cut it.
ClipToRoot(root_aabb, aabb) ==
    LET cut == AABB_intersect(root_aabb, aabb)
    IN  IF cut.type = "Intersects" THEN cut.aabb
        ELSE IF cut.type = "ContainedBy" THEN root_aabb
        ELSE aabb

\* The early return on the area of effect alone.
ReturnsAtOnce_aoe_only(tool, action) ==
    AABB_intersect(OctantKey_aabb(OctantKey_root), Brush_aoe_aabb(tool)).type
        = "DoesNotIntersect"

\* The early returns of both implementations: Place with a tool box off the
\* terrain, any action with an area of effect off the terrain.
ReturnsAtOnce(tool, action) ==
    LET root_aabb == OctantKey_aabb(OctantKey_root)
    IN  \/ /\ AABB_intersect(root_aabb, Brush_tool_aabb(tool)).type
                = "DoesNotIntersect"
           /\ action = "Place"
        \/ AABB_intersect(root_aabb, Brush_aoe_aabb(tool)).type
             = "DoesNotIntersect"

OctantMap_apply_tool_recurse(this, tool, action, max_depth) ==
    LET root_aabb == OctantKey_aabb(OctantKey_root)
    IN  IF ReturnsAtOnce(tool, action) THEN this
        ELSE OctantMap_apply_tool_at_octant(this, tool,
                 ClipToRoot(root_aabb, Brush_tool_aabb(tool)),
                 ClipToRoot(root_aabb, Brush_aoe_aabb(tool)),
                 action, max_depth, OctantKey_root)

\* apply_tool_filter, the inner fn apply_to_octant: the octant's new values
\* and the subdivide list, with the octant and its old values pushed if
\* subdivision is needed.
OctantMap_apply_to_octant(tool, tool_aabb, aoe_aabb, action, max_depth, octant, values, leaves, subdivide) ==
    LET newvals == OctantNewvals(tool, action, octant, values)
    IN  [values |-> newvals,
         subdivide |->
            IF SubdivisionNeeded(tool, tool_aabb, aoe_aabb, action, max_depth,
                   octant, newvals, octant \in leaves)
            THEN Append(subdivide, <<octant, values>>)
            ELSE subdivide]

\* The octants the first pass of apply_tool_filter visits.
FilterVisited(this, max_depth) ==
    {k \in DOMAIN this.octants : OctantKey_depth(k) <= max_depth}

\* The first pass: every visited octant gets its new values.
FilterFirstPass(this, tool, tool_aabb, aoe_aabb, action, max_depth) ==
    [this EXCEPT !.octants =
        Tabulated([k \in DOMAIN @ |->
            IF k \in FilterVisited(this, max_depth)
            THEN OctantNewvals(tool, action, k, @[k])
            ELSE @[k]])]

\* The octants the first pass pushes on the subdivide list.
FilterPushed(this, tool, tool_aabb, aoe_aabb, action, max_depth) ==
    {k \in FilterVisited(this, max_depth) :
        OctantMap_apply_to_octant(tool, tool_aabb, aoe_aabb, action, max_depth,
            k, this.octants[k], this.leaves, <<>>).subdivide # <<>>}

\* A set of octants as a list, in some order.
RECURSIVE InSomeOrder(_)
InSomeOrder(S) ==
    IF S = {} THEN <<>>
    ELSE LET k == CHOOSE k \in S : TRUE
         IN  <<k>> \o InSomeOrder(S \ {k})

\* The loop of apply_tool_filter: pop the last entry, subdivide it from its
\* old values, apply the tool to each child (children() asserts that the
\* octant is not at its maximum depth), which may push the child.  The
\* state of the loop over the children is the map, the list and the next
\* child.
RECURSIVE FilterDrain(_, _, _, _, _, _, _)
FilterDrain(this, subdivide, tool, tool_aabb, aoe_aabb, action, max_depth) ==
    IF subdivide = <<>> THEN this
    ELSE
    LET octant == subdivide[Len(subdivide)][1]
        values == subdivide[Len(subdivide)][2]
        popped == SubSeq(subdivide, 1, Len(subdivide) - 1)
        divided == OctantMap_subdivide_with_old_values(this, octant, values)
        RECURSIVE each_child(_)
        each_child(loop) ==
            IF loop.i > 7 THEN loop
            ELSE LET child == OctantKey_child(octant, loop.i)
                     done == OctantMap_apply_to_octant(tool, tool_aabb, aoe_aabb,
                                 action, max_depth, child,
                                 loop.map.octants[child], loop.map.leaves,
                                 loop.subdivide)
                 IN  each_child([map |-> [loop.map EXCEPT
                                             !.octants[child] = done.values],
                                 subdivide |-> done.subdivide,
                                 i |-> loop.i + 1])
        after == each_child([map |-> divided, subdivide |-> popped, i |-> 0])
    IN  IF OctantKey_at_max_depth(octant)
        THEN [divided EXCEPT !.panicked = TRUE]
        ELSE FilterDrain(after.map, after.subdivide, tool, tool_aabb,
                         aoe_aabb, action, max_depth)

\* apply_tool_filter.  The order in which the map is iterated decides the
\* order of the subdivide list; last is the pushed octant iterated last,
\* which the loop pops first.
OctantMap_apply_tool_filter(this, tool, action, max_depth, last) ==
    LET root_aabb == OctantKey_aabb(OctantKey_root)
        tool_aabb == ClipToRoot(root_aabb, Brush_tool_aabb(tool))
        aoe_aabb == ClipToRoot(root_aabb, Brush_aoe_aabb(tool))
        pushed == FilterPushed(this, tool, tool_aabb, aoe_aabb, action, max_depth)
        list == InSomeOrder(pushed \ {last}) \o (IF last \in pushed THEN <<last>> ELSE <<>>)
    IN  IF ReturnsAtOnce(tool, action) THEN this
        ELSE FilterDrain(
                 FilterFirstPass(this, tool, tool_aabb, aoe_aabb, action, max_depth),
                 Tabulated([n \in 1..Len(list) |-> <<list[n], this.octants[list[n]]>>]),
                 tool, tool_aabb, aoe_aabb, action, max_depth)

\* What the state keeps of a call beside the map: the implementation called,
\* its arguments, whether every octant was within max_depth before it, the
\* map as it was before it, the action of the call before it, and whether
\* every tool so far was convex.
MapCall(impl, tool, action, max_depth, result) ==
    [map |-> result, impl |-> impl, tool |-> tool, action |-> action,
     max_depth |-> max_depth,
     bounded_before |-> \A k \in DOMAIN omap.map.octants :
                            OctantKey_depth(k) <= max_depth,
     old |-> omap.map, old_action |-> omap.action,
     convex_only |-> omap.convex_only /\ Brush_is_convex(tool),
     recurse_only |-> omap.recurse_only /\ impl = "recurse",
     calls |-> omap.calls + 1]

\* One apply_tool_recurse call; after a panic there are no more calls.
MapApplyToolRecurse ==
    \E tool \in Brushes, action \in Actions, max_depth \in 0..MaxDepthArg :
        /\ ~omap.map.panicked
        /\ omap.calls < MaxCalls
        /\ omap' = MapCall("recurse", tool, action, max_depth,
                       OctantMap_apply_tool_recurse(omap.map, tool, action, max_depth))
        /\ UNCHANGED <<okey, tkey, isect, cont, act, zeroMin, naive, refined, sub, mesh, par, mcube, geom, morton, arena, step>>

\* The octants that can be the last one pushed by the first pass of a call;
\* when the call pushes none, the root stands for "none".
FilterLast(this, tool, action, max_depth) ==
    LET root_aabb == OctantKey_aabb(OctantKey_root)
        pushed == FilterPushed(this, tool,
                      ClipToRoot(root_aabb, Brush_tool_aabb(tool)),
                      ClipToRoot(root_aabb, Brush_aoe_aabb(tool)),
                      action, max_depth)
    IN  IF ReturnsAtOnce(tool, action) \/ pushed = {}
        THEN {OctantKey_root}
        ELSE pushed

\* One apply_tool_filter call.
MapApplyToolFilter ==
    \E tool \in Brushes, action \in Actions, max_depth \in 0..MaxDepthArg :
        \E last \in FilterLast(omap.map, tool, action, max_depth) :
            /\ ~omap.map.panicked
            /\ omap.calls < MaxCalls
            /\ omap' = MapCall("filter", tool, action, max_depth,
                           OctantMap_apply_tool_filter(omap.map, tool, action,
                                                       max_depth, last))
            /\ UNCHANGED <<okey, tkey, isect, cont, act, zeroMin, naive, refined, sub, mesh, par, mcube, geom, morton, arena, step>>

(***************************************************************************)
(* One step of NaiveOctreeCell::apply_tool                                 *)
(*                                                                         *)
(* A NaiveOctree::apply_tool call runs apply_tool_impl once on every cell  *)
(* the octree has, with the cell's depth as current_depth and the boxes    *)
(* cut to the terrain.  The step is that one run on one cell.              *)
(***************************************************************************)

\* The largest max_depth of a step.
MaxStepDepth == 2

\* The tools of a step: those of the calls, and a concave one whose area of
\* effect reaches octant 0 of the terrain only.
StepBrushes ==
    Brushes \cup {Brush(<<-4 * Quarter, -4 * Quarter, -4 * Quarter>>, Quarter, TRUE)}

\* The paths of the cells below (and including) a cell.
RECURSIVE CellPaths(_, _)
CellPaths(cell, path) ==
    {path} \cup (IF cell.children = <<>> THEN {}
                 ELSE UNION {CellPaths(cell.children[c], Append(path, c)) : c \in 1..8})

\* NaiveOctree::_apply_tool up to the call on the root: the boxes cut to
\* the terrain and whether the call returns at once.
NaiveOctree__apply_tool_boxes(self, tool, action) ==
    LET terrain_aabb == NaiveOctree_terrain_aabb(self)
        aoe_isect == AABB_intersect(terrain_aabb, Tool_aoe_aabb(tool))
        aoe_aabb == IF aoe_isect.type = "Intersects" THEN aoe_isect.aabb
                    ELSE IF aoe_isect.type = "ContainedBy" THEN terrain_aabb
                    ELSE Tool_aoe_aabb(tool)
        tool_isect == AABB_intersect(terrain_aabb, Tool_tool_aabb(tool))
        tool_aabb == IF tool_isect.type = "Intersects" THEN tool_isect.aabb
                     ELSE IF tool_isect.type = "ContainedBy" THEN terrain_aabb
                     ELSE Tool_tool_aabb(tool)
    IN  [returns |-> \/ aoe_isect.type = "DoesNotIntersect"
                     \/ tool_isect.type = "DoesNotIntersect" /\ action = "Place",
         tool_aabb |-> tool_aabb, aoe_aabb |-> aoe_aabb]

IdleStep == [called |-> FALSE, self |-> NaiveOctreeCell_default,
             after |-> NaiveOctreeCell_default,
             tool |-> Tool_new(Brush(<<0, 0, 0>>, 0, FALSE)), action |-> "none",
             tool_aabb |-> ONE_CUBIC_METER, aoe_aabb |-> ONE_CUBIC_METER,
             cell_aabb |-> ONE_CUBIC_METER, current_depth |-> 0, max_depth |-> 0]

\* apply_tool_impl runs on one cell of the octree, as a call with this tool,
\* action and max_depth runs it.
ApplyToolStep ==
    \E func \in StepBrushes, action \in Actions, max_depth \in 0..MaxStepDepth :
        \E path \in CellPaths(naive.tree.root, <<>>) :
            LET tool == Tool_new(func)
                cut == NaiveOctree__apply_tool_boxes(naive.tree, tool, action)
                self == CellAt(naive.tree.root, path)
                cell_aabb == CellAABB(NaiveOctree_terrain_aabb(naive.tree), path)
            IN  /\ ~step.called
                /\ ~cut.returns
                /\ step' = [called |-> TRUE, self |-> self,
                            after |-> NaiveOctreeCell_apply_tool_impl(self, tool,
                                          cut.tool_aabb, cut.aoe_aabb, action,
                                          cell_aabb, Len(path), max_depth),
                            tool |-> tool, action |-> action,
                            tool_aabb |-> cut.tool_aabb, aoe_aabb |-> cut.aoe_aabb,
                            cell_aabb |-> cell_aabb, current_depth |-> Len(path),
                            max_depth |-> max_depth]
                /\ UNCHANGED <<okey, tkey, isect, cont, act, zeroMin, naive, omap, refined, sub, mesh, par, mcube, geom, morton, arena>>

\* The calls that make the octree whose cells the step runs on.
ShapeForStep == ~step.called /\ NaiveApplyTool

(***************************************************************************)
(* Both density fields under the same edits                                *)
(***************************************************************************)

\* The largest max_depth of the edits made on both terrains.
MaxParityDepth == 2

\* The convex tools, and one across the face between octants 0 and 1 that
\* holds none of their corners, each as a tool whose value depends on the
\* position only.
PositionBrushes ==
    {[origin |-> b.origin, radius |-> b.radius, concave |-> FALSE,
      by_position |-> TRUE] :
        b \in {c \in Brushes : Brush_is_convex(c)}
               \cup {Brush(<<2 * Quarter, Quarter, Quarter>>, Quarter \div 2, FALSE)}}

\* The same edit on both terrains: NaiveOctree::apply_tool and
\* OctantMap::apply_tool_recurse with one tool, action and max_depth.
ApplyToolToBoth ==
    \E func \in PositionBrushes, action \in Actions, max_depth \in 0..MaxParityDepth :
        /\ naive.calls < MaxCalls
        /\ omap.calls = naive.calls
        /\ ~omap.map.panicked
        /\ LET result == NaiveOctree__apply_tool(naive.tree, Tool_new(func),
                                                 action, max_depth)
           IN  naive' = [tree |-> [naive.tree EXCEPT !.root = result.root],
                         applied |-> result.applied,
                         tool |-> Tool_new(func), action |-> action,
                         max_depth |-> max_depth,
                         old |-> naive.tree.root,
                         deepest_arg |-> Max(naive.deepest_arg, max_depth),
                         calls |-> naive.calls + 1]
        /\ omap' = MapCall("recurse", func, action, max_depth,
                       OctantMap_apply_tool_recurse(omap.map, func, action, max_depth))
        /\ UNCHANGED <<okey, tkey, isect, cont, act, zeroMin, refined, sub, mesh, par, mcube, geom, morton, arena, step>>

(***************************************************************************)
(* Marching cubes: the tables                                              *)
(*                                                                         *)
(* A configuration is the 8-bit number of the corner signs.  The tables    *)
(* are Rust arrays indexed from 0; here they are tuples indexed from 1,    *)
(* entry c + 1 being the array's entry c.  EDGE_TABLE is written in        *)
(* decimal.                                                                *)
(***************************************************************************)

\* A table in which every configuration has the one triangle of edges 1, 8, 0.
TRI_TABLE_one_triangle ==
    [c \in 1..256 |-> <<1, 8, 0, -1, -1, -1, -1, -1, -1, -1, -1, -1, -1, -1, -1>>]

EDGE_TABLE ==
    <<
    0, 259, 2057, 2314, 304, 51, 2361, 2106, 2192, 2451, 153, 410,
    2464, 2211, 425, 170, 518, 773, 2575, 2828, 822, 565, 2879, 2620,
    2710, 2965, 671, 924, 2982, 2725, 943, 684, 1036, 1295, 3077, 3334,
    1340, 1087, 3381, 3126, 3228, 3487, 1173, 1430, 3500, 3247, 1445, 1190,
    1546, 1801, 3587, 3840, 1850, 1593, 3891, 3632, 3738, 3993, 1683, 1936,
    4010, 3753, 1955, 1696, 608, 867, 2665, 2922, 848, 595, 2905, 2650,
    2800, 3059, 761, 1018, 3008, 2755, 969, 714, 102, 357, 2159, 2412,
    342, 85, 2399, 2140, 2294, 2549, 255, 508, 2502, 2245, 463, 204,
    1644, 1903, 3685, 3942, 1884, 1631, 3925, 3670, 3836, 4095, 1781, 2038,
    4044, 3791, 1989, 1734, 1130, 1385, 3171, 3424, 1370, 1113, 3411, 3152,
    3322, 3577, 1267, 1520, 3530, 3273, 1475, 1216, 1216, 1475, 3273, 3530,
    1520, 1267, 3577, 3322, 3152, 3411, 1113, 1370, 3424, 3171, 1385, 1130,
    1734, 1989, 3791, 4044, 2038, 1781, 4095, 3836, 3670, 3925, 1631, 1884,
    3942, 3685, 1903, 1644, 204, 463, 2245, 2502, 508, 255, 2549, 2294,
    2140, 2399, 85, 342, 2412, 2159, 357, 102, 714, 969, 2755, 3008,
    1018, 761, 3059, 2800, 2650, 2905, 595, 848, 2922, 2665, 867, 608,
    1696, 1955, 3753, 4010, 1936, 1683, 3993, 3738, 3632, 3891, 1593, 1850,
    3840, 3587, 1801, 1546, 1190, 1445, 3247, 3500, 1430, 1173, 3487, 3228,
    3126, 3381, 1087, 1340, 3334, 3077, 1295, 1036, 684, 943, 2725, 2982,
    924, 671, 2965, 2710, 2620, 2879, 565, 822, 2828, 2575, 773, 518,
    170, 425, 2211, 2464, 410, 153, 2451, 2192, 2106, 2361, 51, 304,
    2314, 2057, 259, 0
    >>

TRI_TABLE ==
    <<
    <<-1, -1, -1, -1, -1, -1, -1, -1, -1, -1, -1, -1, -1, -1, -1>>,
    << 1,  8,  0, -1, -1, -1, -1, -1, -1, -1, -1, -1, -1, -1, -1>>,
    << 3,  0, 11, -1, -1, -1, -1, -1, -1, -1, -1, -1, -1, -1, -1>>,
    << 1, 11,  3,  8, 11,  1, -1, -1, -1, -1, -1, -1, -1, -1, -1>>,
    << 5,  4,  8, -1, -1, -1, -1, -1, -1, -1, -1, -1, -1, -1, -1>>,
    << 5,  0,  1,  4,  0,  5, -1, -1, -1, -1, -1, -1, -1, -1, -1>>,
    <<11,  3,  0,  4,  8,  5, -1, -1, -1, -1, -1, -1, -1, -1, -1>>,
    <<11,  5,  4, 11,  3,  5,  3,  1,  5, -1, -1, -1, -1, -1, -1>>,
    <<11,  4,  7, -1, -1, -1, -1, -1, -1, -1, -1, -1, -1, -1, -1>>,
    << 0,  1,  8, 11,  4,  7, -1, -1, -1, -1, -1, -1, -1, -1, -1>>,
    << 3,  4,  7,  0,  4,  3, -1, -1, -1, -1, -1, -1, -1, -1, -1>>,
    << 4,  1,  8,  4,  7,  1,  7,  3,  1, -1, -1, -1, -1, -1, -1>>,
    << 8,  7, 11,  5,  7,  8, -1, -1, -1, -1, -1, -1, -1, -1, -1>>,
    << 0,  7, 11,  0,  1,  7,  1,  5,  7, -1, -1, -1, -1, -1, -1>>,
    << 8,  3,  0,  8,  5,  3,  5,  7,  3, -1, -1, -1, -1, -1, -1>>,
    << 3,  1,  7,  1,  5,  7, -1, -1, -1, -1, -1, -1, -1, -1, -1>>,
    << 2,  9,  1, -1, -1, -1, -1, -1, -1, -1, -1, -1, -1, -1, -1>>,
    << 2,  8,  0,  9,  8,  2, -1, -1, -1, -1, -1, -1, -1, -1, -1>>,
    << 2,  9,  1,  3,  0, 11, -1, -1, -1, -1, -1, -1, -1, -1, -1>>,
    << 2, 11,  3,  2,  9, 11,  9,  8, 11, -1, -1, -1, -1, -1, -1>>,
    << 1,  2,  9,  8,  5,  4, -1, -1, -1, -1, -1, -1, -1, -1, -1>>,
    << 5,  2,  9,  5,  4,  2,  4,  0,  2, -1, -1, -1, -1, -1, -1>>,
    << 3,  0, 11,  1,  2,  9,  4,  8,  5, -1, -1, -1, -1, -1, -1>>,
    <<11,  5,  4,  3,  5, 11,  3,  9,  5,  3,  2,  9, -1, -1, -1>>,
    << 2,  9,  1,  7, 11,  4, -1, -1, -1, -1, -1, -1, -1, -1, -1>>,
    << 8,  2,  9,  8,  0,  2, 11,  4,  7, -1, -1, -1, -1, -1, -1>>,
    << 3,  4,  7,  3,  0,  4,  1,  2,  9, -1, -1, -1, -1, -1, -1>>,
    << 2,  9,  8,  2,  8,  7,  2,  7,  3,  7,  8,  4, -1, -1, -1>>,
    << 8,  7, 11,  8,  5,  7,  9,  1,  2, -1, -1, -1, -1, -1, -1>>,
    << 9,  0,  2,  9,  7,  0,  9,  5,  7, 11,  0,  7, -1, -1, -1>>,
    << 2,  9,  1,  3,  0,  5,  3,  5,  7,  5,  0,  8, -1, -1, -1>>,
    << 2,  9,  5,  2,  5,  3,  3,  5,  7, -1, -1, -1, -1, -1, -1>>,
    << 2,  3, 10, -1, -1, -1, -1, -1, -1, -1, -1, -1, -1, -1, -1>>,
    << 3, 10,  2,  0,  1,  8, -1, -1, -1, -1, -1, -1, -1, -1, -1>>,
    <<10,  0, 11,  2,  0, 10, -1, -1, -1, -1, -1, -1, -1, -1, -1>>,
    << 1, 10,  2,  1,  8, 10,  8, 11, 10, -1, -1, -1, -1, -1, -1>>,
    << 2,  3, 10,  8,  5,  4, -1, -1, -1, -1, -1, -1, -1, -1, -1>>,
    << 0,  5,  4,  0,  1,  5,  2,  3, 10, -1, -1, -1, -1, -1, -1>>,
    << 0, 10,  2,  0, 11, 10,  4,  8,  5, -1, -1, -1, -1, -1, -1>>,
    << 2,  1,  5,  2,  5, 11,  2, 11, 10,  4, 11,  5, -1, -1, -1>>,
    <<10,  2,  3,  7, 11,  4, -1, -1, -1, -1, -1, -1, -1, -1, -1>>,
    << 2,  3, 10,  0,  1,  8,  7, 11,  4, -1, -1, -1, -1, -1, -1>>,
    <<10,  4,  7, 10,  2,  4,  2,  0,  4, -1, -1, -1, -1, -1, -1>>,
    << 1,  8,  4,  2,  1,  4,  2,  4,  7,  2,  7, 10, -1, -1, -1>>,
    << 7,  8,  5,  7, 11,  8,  3, 10,  2, -1, -1, -1, -1, -1, -1>>,
    <<10,  2,  3,  7, 11,  1,  7,  1,  5,  1, 11,  0, -1, -1, -1>>,
    <<10,  5,  7, 10,  0,  5, 10,  2,  0,  0,  8,  5, -1, -1, -1>>,
    <<10,  2,  1, 10,  1,  7,  7,  1,  5, -1, -1, -1, -1, -1, -1>>,
    << 3,  9,  1, 10,  9,  3, -1, -1, -1, -1, -1, -1, -1, -1, -1>>,
    << 3,  8,  0,  3, 10,  8, 10,  9,  8, -1, -1, -1, -1, -1, -1>>,
    << 0,  9,  1,  0, 11,  9, 11, 10,  9, -1, -1, -1, -1, -1, -1>>,
    <<10,  9, 11, 11,  9,  8, -1, -1, -1, -1, -1, -1, -1, -1, -1>>,
    << 9,  3, 10,  9,  1,  3,  8,  5,  4, -1, -1, -1, -1, -1, -1>>,
    << 3,  4,  0,  3,  9,  4,  3, 10,  9,  9,  5,  4, -1, -1, -1>>,
    << 4,  8,  5,  0, 11,  1, 11,  9,  1, 11, 10,  9, -1, -1, -1>>,
    << 5,  4, 11,  5, 11,  9,  9, 11, 10, -1, -1, -1, -1, -1, -1>>,
    << 3,  9,  1,  3, 10,  9,  7, 11,  4, -1, -1, -1, -1, -1, -1>>,
    << 7, 11,  4,  3, 10,  0, 10,  8,  0, 10,  9,  8, -1, -1, -1>>,
    << 7, 10,  9,  7,  9,  0,  7,  0,  4,  1,  0,  9, -1, -1, -1>>,
    << 4,  7, 10,  4, 10,  8,  8, 10,  9, -1, -1, -1, -1, -1, -1>>,
    <<11,  5,  7, 11,  8,  5, 10,  9,  3,  9,  1,  3, -1, -1, -1>>,
    <<10,  9,  0, 10,  0,  3,  9,  5,  0, 11,  0,  7,  5,  7,  0>>,
    << 5,  7,  0,  5,  0,  8,  7, 10,  0,  1,  0,  9, 10,  9,  0>>,
    <<10,  9,  5,  7, 10,  5, -1, -1, -1, -1, -1, -1, -1, -1, -1>>,
    << 6,  5,  9, -1, -1, -1, -1, -1, -1, -1, -1, -1, -1, -1, -1>>,
    << 9,  6,  5,  1,  8,  0, -1, -1, -1, -1, -1, -1, -1, -1, -1>>,
    << 3,  0, 11,  9,  6,  5, -1, -1, -1, -1, -1, -1, -1, -1, -1>>,
    << 1, 11,  3,  1,  8, 11,  5,  9,  6, -1, -1, -1, -1, -1, -1>>,
    << 4,  9,  6,  8,  9,  4, -1, -1, -1, -1, -1, -1, -1, -1, -1>>,
    << 9,  0,  1,  9,  6,  0,  6,  4,  0, -1, -1, -1, -1, -1, -1>>,
    << 4,  9,  6,  4,  8,  9,  0, 11,  3, -1, -1, -1, -1, -1, -1>>,
    << 9,  3,  1,  9,  4,  3,  9,  6,  4,  4, 11,  3, -1, -1, -1>>,
    << 7, 11,  4,  6,  5,  9, -1, -1, -1, -1, -1, -1, -1, -1, -1>>,
    << 1,  8,  0,  5,  9,  6, 11,  4,  7, -1, -1, -1, -1, -1, -1>>,
    << 4,  3,  0,  4,  7,  3,  6,  5,  9, -1, -1, -1, -1, -1, -1>>,
    << 9,  6,  5,  1,  8,  7,  1,  7,  3,  7,  8,  4, -1, -1, -1>>,
    << 7,  9,  6,  7, 11,  9, 11,  8,  9, -1, -1, -1, -1, -1, -1>>,
    << 0,  7, 11,  1,  7,  0,  1,  6,  7,  1,  9,  6, -1, -1, -1>>,
    << 0,  7,  3,  0,  9,  7,  0,  8,  9,  6,  7,  9, -1, -1, -1>>,
    << 9,  6,  7,  9,  7,  1,  1,  7,  3, -1, -1, -1, -1, -1, -1>>,
    << 6,  1,  2,  5,  1,  6, -1, -1, -1, -1, -1, -1, -1, -1, -1>>,
    << 8,  6,  5,  8,  0,  6,  0,  2,  6, -1, -1, -1, -1, -1, -1>>,
    << 1,  6,  5,  1,  2,  6,  3,  0, 11, -1, -1, -1, -1, -1, -1>>,
    << 3,  8, 11,  3,  6,  8,  3,  2,  6,  5,  8,  6, -1, -1, -1>>,
    << 1,  4,  8,  1,  2,  4,  2,  6,  4, -1, -1, -1, -1, -1, -1>>,
    << 2,  6,  0,  6,  4,  0, -1, -1, -1, -1, -1, -1, -1, -1, -1>>,
    << 3,  0, 11,  1,  2,  8,  2,  4,  8,  2,  6,  4, -1, -1, -1>>,
    <<11,  3,  2, 11,  2,  4,  4,  2,  6, -1, -1, -1, -1, -1, -1>>,
    << 6,  1,  2,  6,  5,  1,  4,  7, 11, -1, -1, -1, -1, -1, -1>>,
    << 7, 11,  4,  6,  5,  0,  6,  0,  2,  0,  5,  8, -1, -1, -1>>,
    << 3,  0,  7,  7,  0,  4,  1,  2,  6,  1,  6,  5, -1, -1, -1>>,
    << 7,  3,  8,  7,  8,  4,  3,  2,  8,  5,  8,  6,  2,  6,  8>>,
    << 7,  2,  6,  7,  8,  2,  7, 11,  8,  8,  1,  2, -1, -1, -1>>,
    << 7, 11,  0,  7,  0,  6,  6,  0,  2, -1, -1, -1, -1, -1, -1>>,
    << 2,  6,  8,  2,  8,  1,  6,  7,  8,  0,  8,  3,  7,  3,  8>>,
    << 2,  6,  7,  3,  2,  7, -1, -1, -1, -1, -1, -1, -1, -1, -1>>,
    << 2,  3, 10,  9,  6,  5, -1, -1, -1, -1, -1, -1, -1, -1, -1>>,
    <<10,  2,  3,  9,  6,  5,  0,  1,  8, -1, -1, -1, -1, -1, -1>>,
    <<10,  0, 11, 10,  2,  0,  9,  6,  5, -1, -1, -1, -1, -1, -1>>,
    << 6,  5,  9, 10,  2,  8, 10,  8, 11,  8,  2,  1, -1, -1, -1>>,
    << 9,  4,  8,  9,  6,  4, 10,  2,  3, -1, -1, -1, -1, -1, -1>>,
    << 3, 10,  2,  0,  1,  6,  0,  6,  4,  6,  1,  9, -1, -1, -1>>,
    << 6,  8,  9,  6,  4,  8,  2,  0, 10,  0, 11, 10, -1, -1, -1>>,
    << 6,  4,  1,  6,  1,  9,  4, 11,  1,  2,  1, 10, 11, 10,  1>>,
    << 3, 10,  2,  7, 11,  4,  9,  6,  5, -1, -1, -1, -1, -1, -1>>,
    << 2,  3, 10,  6,  5,  9,  0,  1,  8,  7, 11,  4, -1, -1, -1>>,
    << 9,  6,  5, 10,  2,  7,  2,  4,  7,  2,  0,  4, -1, -1, -1>>,
    << 2,  7, 10,  2,  4,  7,  2,  1,  4,  8,  4,  1,  9,  6,  5>>,
    << 2,  3, 10,  9,  6, 11,  9, 11,  8, 11,  6,  7, -1, -1, -1>>,
    << 1, 11,  0,  1,  7, 11,  1,  9,  7,  6,  7,  9,  2,  3, 10>>,
    << 2,  0,  7,  2,  7, 10,  0,  8,  7,  6,  7,  9,  8,  9,  7>>,
    << 9,  6,  7,  9,  7,  1, 10,  2,  7,  2,  1,  7, -1, -1, -1>>,
    << 6,  3, 10,  6,  5,  3,  5,  1,  3, -1, -1, -1, -1, -1, -1>>,
    << 6,  5,  8, 10,  6,  8, 10,  8,  0, 10,  0,  3, -1, -1, -1>>,
    << 0, 11, 10,  0, 10,  5,  0,  5,  1,  5, 10,  6, -1, -1, -1>>,
    << 6,  5,  8,  6,  8, 10, 10,  8, 11, -1, -1, -1, -1, -1, -1>>,
    <<10,  6,  4, 10,  4,  1, 10,  1,  3,  8,  1,  4, -1, -1, -1>>,
    << 3, 10,  6,  3,  6,  0,  0,  6,  4, -1, -1, -1, -1, -1, -1>>,
    <<11, 10,  1, 11,  1,  0, 10,  6,  1,  8,  1,  4,  6,  4,  1>>,
    <<11, 10,  6,  4, 11,  6, -1, -1, -1, -1, -1, -1, -1, -1, -1>>,
    <<11,  4,  7,  3, 10,  5,  3,  5,  1,  5, 10,  6, -1, -1, -1>>,
    <<10,  0,  3, 10,  8,  0, 10,  6,  8,  5,  8,  6,  7, 11,  4>>,
    << 5,  1, 10,  5, 10,  6,  1,  0, 10,  7, 10,  4,  0,  4, 10>>,
    << 4,  7, 10,  4, 10,  8,  6,  5, 10,  5,  8, 10, -1, -1, -1>>,
    <<11,  8,  6, 11,  6,  7,  8,  1,  6, 10,  6,  3,  1,  3,  6>>,
    << 7, 11,  0,  7,  0,  6,  3, 10,  0, 10,  6,  0, -1, -1, -1>>,
    <<10,  6,  7,  0,  8,  1, -1, -1, -1, -1, -1, -1, -1, -1, -1>>,
    <<10,  6,  7, -1, -1, -1, -1, -1, -1, -1, -1, -1, -1, -1, -1>>,
    <<10,  7,  6, -1, -1, -1, -1, -1, -1, -1, -1, -1, -1, -1, -1>>,
    <<10,  7,  6,  0,  1,  8, -1, -1, -1, -1, -1, -1, -1, -1, -1>>,
    << 3,  0, 11, 10,  7,  6, -1, -1, -1, -1, -1, -1, -1, -1, -1>>,
    <<11,  1,  8, 11,  3,  1, 10,  7,  6, -1, -1, -1, -1, -1, -1>>,
    << 6, 10,  7,  5,  4,  8, -1, -1, -1, -1, -1, -1, -1, -1, -1>>,
    << 5,  0,  1,  5,  4,  0,  7,  6, 10, -1, -1, -1, -1, -1, -1>>,
    <<10,  7,  6, 11,  3,  0,  5,  4,  8, -1, -1, -1, -1, -1, -1>>,
    <<10,  7,  6, 11,  3,  4,  3,  5,  4,  3,  1,  5, -1, -1, -1>>,
    <<11,  6, 10,  4,  6, 11, -1, -1, -1, -1, -1, -1, -1, -1, -1>>,
    <<11,  6, 10, 11,  4,  6,  8,  0,  1, -1, -1, -1, -1, -1, -1>>,
    << 3,  6, 10,  3,  0,  6,  0,  4,  6, -1, -1, -1, -1, -1, -1>>,
    <<10,  4,  6, 10,  1,  4, 10,  3,  1,  8,  4,  1, -1, -1, -1>>,
    << 6,  8,  5,  6, 10,  8, 10, 11,  8, -1, -1, -1, -1, -1, -1>>,
    << 0, 10, 11,  0,  5, 10,  0,  1,  5,  5,  6, 10, -1, -1, -1>>,
    << 6,  8,  5, 10,  8,  6, 10,  0,  8, 10,  3,  0, -1, -1, -1>>,
    << 6, 10,  3,  6,  3,  5,  5,  3,  1, -1, -1, -1, -1, -1, -1>>,
    <<10,  7,  6,  2,  9,  1, -1, -1, -1, -1, -1, -1, -1, -1, -1>>,
    << 2,  8,  0,  2,  9,  8,  6, 10,  7, -1, -1, -1, -1, -1, -1>>,
    << 1,  2,  9,  3,  0, 11,  6, 10,  7, -1, -1, -1, -1, -1, -1>>,
    << 6, 10,  7,  2,  9,  3,  9, 11,  3,  9,  8, 11, -1, -1, -1>>,
    << 2,  9,  1,  6, 10,  7,  8,  5,  4, -1, -1, -1, -1, -1, -1>>,
    <<10,  7,  6,  2,  9,  4,  2,  4,  0,  4,  9,  5, -1, -1, -1>>,
    << 4,  8,  5,  3,  0, 11,  2,  9,  1,  6, 10,  7, -1, -1, -1>>,
    << 3,  4, 11,  3,  5,  4,  3,  2,  5,  9,  5,  2, 10,  7,  6>>,
    << 6, 11,  4,  6, 10, 11,  2,  9,  1, -1, -1, -1, -1, -1, -1>>,
    << 2,  9,  0,  0,  9,  8,  6, 10, 11,  6, 11,  4, -1, -1, -1>>,
    << 1,  2,  9,  3,  0, 10,  0,  6, 10,  0,  4,  6, -1, -1, -1>>,
    << 9,  8,  3,  9,  3,  2,  8,  4,  3, 10,  3,  6,  4,  6,  3>>,
    << 2,  9,  1,  6, 10,  5, 10,  8,  5, 10, 11,  8, -1, -1, -1>>,
    <<10, 11,  5, 10,  5,  6, 11,  0,  5,  9,  5,  2,  0,  2,  5>>,
    <<10,  5,  6, 10,  8,  5, 10,  3,  8,  0,  8,  3,  2,  9,  1>>,
    << 6, 10,  3,  6,  3,  5,  2,  9,  3,  9,  5,  3, -1, -1, -1>>,
    << 2,  7,  6,  3,  7,  2, -1, -1, -1, -1, -1, -1, -1, -1, -1>>,
    << 2,  7,  6,  2,  3,  7,  0,  1,  8, -1, -1, -1, -1, -1, -1>>,
    << 7,  0, 11,  7,  6,  0,  6,  2,  0, -1, -1, -1, -1, -1, -1>>,
    << 7,  6,  2,  7,  2,  8,  7,  8, 11,  8,  2,  1, -1, -1, -1>>,
    << 7,  2,  3,  7,  6,  2,  5,  4,  8, -1, -1, -1, -1, -1, -1>>,
    << 1,  4,  0,  1,  5,  4,  3,  7,  2,  7,  6,  2, -1, -1, -1>>,
    << 5,  4,  8,  7,  6, 11,  6,  0, 11,  6,  2,  0, -1, -1, -1>>,
    << 6,  2, 11,  6, 11,  7,  2,  1, 11,  4, 11,  5,  1,  5, 11>>,
    <<11,  2,  3, 11,  4,  2,  4,  6,  2, -1, -1, -1, -1, -1, -1>>,
    << 1,  8,  0,  2,  3,  4,  2,  4,  6,  4,  3, 11, -1, -1, -1>>,
    << 2,  0,  6,  6,  0,  4, -1, -1, -1, -1, -1, -1, -1, -1, -1>>,
    << 1,  8,  4,  1,  4,  2,  2,  4,  6, -1, -1, -1, -1, -1, -1>>,
    << 3, 11,  8,  3,  8,  6,  3,  6,  2,  5,  6,  8, -1, -1, -1>>,
    << 1,  5, 11,  1, 11,  0,  5,  6, 11,  3, 11,  2,  6,  2, 11>>,
    << 8,  5,  6,  8,  6,  0,  0,  6,  2, -1, -1, -1, -1, -1, -1>>,
    << 6,  2,  1,  5,  6,  1, -1, -1, -1, -1, -1, -1, -1, -1, -1>>,
    << 9,  7,  6,  9,  1,  7,  1,  3,  7, -1, -1, -1, -1, -1, -1>>,
    << 0,  3,  7,  0,  7,  9,  0,  9,  8,  6,  9,  7, -1, -1, -1>>,
    << 0, 11,  7,  1,  0,  7,  1,  7,  6,  1,  6,  9, -1, -1, -1>>,
    << 7,  6,  9,  7,  9, 11, 11,  9,  8, -1, -1, -1, -1, -1, -1>>,
    << 8,  5,  4,  9,  1,  6,  1,  7,  6,  1,  3,  7, -1, -1, -1>>,
    << 4,  0,  9,  4,  9,  5,  0,  3,  9,  6,  9,  7,  3,  7,  9>>,
    << 1,  6,  9,  1,  7,  6,  1,  0,  7, 11,  7,  0,  8,  5,  4>>,
    << 5,  4, 11,  5, 11,  9,  7,  6, 11,  6,  9, 11, -1, -1, -1>>,
    << 9,  1,  3,  9,  3,  4,  9,  4,  6,  4,  3, 11, -1, -1, -1>>,
    << 4,  6,  3,  4,  3, 11,  6,  9,  3,  0,  3,  8,  9,  8,  3>>,
    << 9,  1,  0,  9,  0,  6,  6,  0,  4, -1, -1, -1, -1, -1, -1>>,
    << 4,  6,  9,  8,  4,  9, -1, -1, -1, -1, -1, -1, -1, -1, -1>>,
    << 1,  3,  6,  1,  6,  9,  3, 11,  6,  5,  6,  8, 11,  8,  6>>,
    << 3, 11,  0,  9,  5,  6, -1, -1, -1, -1, -1, -1, -1, -1, -1>>,
    << 8,  5,  6,  8,  6,  0,  9,  1,  6,  1,  0,  6, -1, -1, -1>>,
    << 6,  9,  5, -1, -1, -1, -1, -1, -1, -1, -1, -1, -1, -1, -1>>,
    <<10,  5,  9,  7,  5, 10, -1, -1, -1, -1, -1, -1, -1, -1, -1>>,
    << 5, 10,  7,  5,  9, 10,  1,  8,  0, -1, -1, -1, -1, -1, -1>>,
    <<10,  5,  9, 10,  7,  5, 11,  3,  0, -1, -1, -1, -1, -1, -1>>,
    <<10,  7,  9,  9,  7,  5, 11,  3,  1, 11,  1,  8, -1, -1, -1>>,
    << 4, 10,  7,  4,  8, 10,  8,  9, 10, -1, -1, -1, -1, -1, -1>>,
    << 7,  9, 10,  7,  0,  9,  7,  4,  0,  1,  9,  0, -1, -1, -1>>,
    << 3,  0, 11, 10,  7,  8, 10,  8,  9,  8,  7,  4, -1, -1, -1>>,
    << 3,  1,  4,  3,  4, 11,  1,  9,  4,  7,  4, 10,  9, 10,  4>>,
    << 5, 11,  4,  5,  9, 11,  9, 10, 11, -1, -1, -1, -1, -1, -1>>,
    << 0,  1,  8, 11,  4,  9, 11,  9, 10,  9,  4,  5, -1, -1, -1>>,
    << 3,  0,  4,  3,  4,  9,  3,  9, 10,  9,  4,  5, -1, -1, -1>>,
    << 9, 10,  4,  9,  4,  5, 10,  3,  4,  8,  4,  1,  3,  1,  4>>,
    <<10, 11,  9, 11,  8,  9, -1, -1, -1, -1, -1, -1, -1, -1, -1>>,
    << 0,  1,  9,  0,  9, 11, 11,  9, 10, -1, -1, -1, -1, -1, -1>>,
    << 3,  0,  8,  3,  8, 10, 10,  8,  9, -1, -1, -1, -1, -1, -1>>,
    << 3,  1,  9, 10,  3,  9, -1, -1, -1, -1, -1, -1, -1, -1, -1>>,
    <<10,  1,  2, 10,  7,  1,  7,  5,  1, -1, -1, -1, -1, -1, -1>>,
    <<10,  7,  5, 10,  5,  0, 10,  0,  2,  0,  5,  8, -1, -1, -1>>,
    <<11,  3,  0, 10,  7,  2,  7,  1,  2,  7,  5,  1, -1, -1, -1>>,
    << 7,  5,  2,  7,  2, 10,  5,  8,  2,  3,  2, 11,  8, 11,  2>>,
    << 1,  4,  8,  2,  4,  1,  2,  7,  4,  2, 10,  7, -1, -1, -1>>,
    <<10,  7,  4, 10,  4,  2,  2,  4,  0, -1, -1, -1, -1, -1, -1>>,
    << 2,  8,  1,  2,  4,  8,  2, 10,  4,  7,  4, 10,  3,  0, 11>>,
    <<11,  3,  2, 11,  2,  4, 10,  7,  2,  7,  4,  2, -1, -1, -1>>,
    << 2,  5,  1,  2, 11,  5,  2, 10, 11,  4,  5, 11, -1, -1, -1>>,
    << 0,  2,  5,  0,  5,  8,  2, 10,  5,  4,  5, 11, 10, 11,  5>>,
    << 0,  4, 10,  0, 10,  3,  4,  5, 10,  2, 10,  1,  5,  1, 10>>,
    << 2, 10,  3,  8,  4,  5, -1, -1, -1, -1, -1, -1, -1, -1, -1>>,
    << 1,  2, 10,  1, 10,  8,  8, 10, 11, -1, -1, -1, -1, -1, -1>>,
    <<10, 11,  0,  2, 10,  0, -1, -1, -1, -1, -1, -1, -1, -1, -1>>,
    << 1,  2, 10,  1, 10,  8,  3,  0, 10,  0,  8, 10, -1, -1, -1>>,
    << 2, 10,  3, -1, -1, -1, -1, -1, -1, -1, -1, -1, -1, -1, -1>>,
    << 2,  5,  9,  2,  3,  5,  3,  7,  5, -1, -1, -1, -1, -1, -1>>,
    << 0,  1,  8,  2,  3,  9,  3,  5,  9,  3,  7,  5, -1, -1, -1>>,
    << 9,  2,  0,  9,  0,  7,  9,  7,  5, 11,  7,  0, -1, -1, -1>>,
    << 8, 11,  2,  8,  2,  1, 11,  7,  2,  9,  2,  5,  7,  5,  2>>,
    << 2,  8,  9,  2,  7,  8,  2,  3,  7,  7,  4,  8, -1, -1, -1>>,
    << 3,  7,  9,  3,  9,  2,  7,  4,  9,  1,  9,  0,  4,  0,  9>>,
    << 8,  9,  7,  8,  7,  4,  9,  2,  7, 11,  7,  0,  2,  0,  7>>,
    << 2,  1,  9,  7,  4, 11, -1, -1, -1, -1, -1, -1, -1, -1, -1>>,
    <<11,  4,  5,  3, 11,  5,  3,  5,  9,  3,  9,  2, -1, -1, -1>>,
    << 3,  9,  2,  3,  5,  9,  3, 11,  5,  4,  5, 11,  0,  1,  8>>,
    << 5,  9,  2,  5,  2,  4,  4,  2,  0, -1, -1, -1, -1, -1, -1>>,
    << 5,  9,  2,  5,  2,  4,  1,  8,  2,  8,  4,  2, -1, -1, -1>>,
    << 2,  3, 11,  2, 11,  9,  9, 11,  8, -1, -1, -1, -1, -1, -1>>,
    << 0,  1,  9,  0,  9, 11,  2,  3,  9,  3, 11,  9, -1, -1, -1>>,
    << 2,  0,  8,  9,  2,  8, -1, -1, -1, -1, -1, -1, -1, -1, -1>>,
    << 2,  1,  9, -1, -1, -1, -1, -1, -1, -1, -1, -1, -1, -1, -1>>,
    << 3,  7,  1,  1,  7,  5, -1, -1, -1, -1, -1, -1, -1, -1, -1>>,
    << 8,  0,  3,  8,  3,  5,  5,  3,  7, -1, -1, -1, -1, -1, -1>>,
    << 0, 11,  7,  0,  7,  1,  1,  7,  5, -1, -1, -1, -1, -1, -1>>,
    << 8, 11,  7,  5,  8,  7, -1, -1, -1, -1, -1, -1, -1, -1, -1>>,
    << 4,  8,  1,  4,  1,  7,  7,  1,  3, -1, -1, -1, -1, -1, -1>>,
    << 3,  7,  4,  0,  3,  4, -1, -1, -1, -1, -1, -1, -1, -1, -1>>,
    << 4,  8,  1,  4,  1,  7,  0, 11,  1, 11,  7,  1, -1, -1, -1>>,
    <<11,  7,  4, -1, -1, -1, -1, -1, -1, -1, -1, -1, -1, -1, -1>>,
    <<11,  4,  5, 11,  5,  3,  3,  5,  1, -1, -1, -1, -1, -1, -1>>,
    << 8,  0,  3,  8,  3,  5, 11,  4,  3,  4,  5,  3, -1, -1, -1>>,
    << 5,  1,  0,  4,  5,  0, -1, -1, -1, -1, -1, -1, -1, -1, -1>>,
    << 5,  8,  4, -1, -1, -1, -1, -1, -1, -1, -1, -1, -1, -1, -1>>,
    << 1,  3, 11,  8,  1, 11, -1, -1, -1, -1, -1, -1, -1, -1, -1>>,
    << 3, 11,  0, -1, -1, -1, -1, -1, -1, -1, -1, -1, -1, -1, -1>>,
    << 1,  0,  8, -1, -1, -1, -1, -1, -1, -1, -1, -1, -1, -1, -1>>,
    <<-1, -1, -1, -1, -1, -1, -1, -1, -1, -1, -1, -1, -1, -1, -1>>
    >>

\* Whether bit e of the 12-bit edge mask is set.
EdgeBit(mask, e) == (mask \div (2 ^ e)) % 2 = 1

IdleCube == [looked |-> FALSE, config |-> 0, edges |-> 0, tris |-> <<>>]

\* The tables are read for one configuration, as march_cube reads them.
LookUp ==
    \E c \in 0..255 :
        /\ mcube' = [looked |-> TRUE, config |-> c,
                     edges |-> EDGE_TABLE[c + 1], tris |-> TRI_TABLE[c + 1]]
        /\ UNCHANGED <<okey, tkey, isect, cont, act, zeroMin, naive, omap, refined, sub, mesh, par, geom, morton, arena, step>>

(***************************************************************************)
(* MortonOctantKey (morton/key.rs)                                         *)
(*                                                                         *)
(* A MortonKeyU32 is a u32, here its value: bit i is the bit of weight     *)
(* 2^i, bits 0..9 are x, 10..19 are y and 20..29 are z.  A MortonOctantKey *)
(* is a MortonKeyU32 and a depth.                                          *)
(***************************************************************************)

MortonOctantKey_MAX_DEPTH == 9
X_BITS_START == 0
X_BITS_END == 9
Y_BITS_START == 10
Y_BITS_END == 19
Z_BITS_START == 20
Z_BITS_END == 29

\* The corner indices the walk takes children by.
MortonWalk == {0, 1, 7}

\* corner.view_bits()[a]
CornerBit(corner, a) == (corner \div (2 ^ a)) % 2

BitOf(key, i) == (key \div (2 ^ i)) % 2

\* bits.set(i, b)
BitSet(key, i, b) == key + (b - BitOf(key, i)) * (2 ^ i)

\* bits[from .. to].fill(b), the range without its end
RECURSIVE BitFill(_, _, _, _)
BitFill(key, from, to, b) ==
    IF from >= to THEN key
    ELSE LET filled == BitSet(key, from, b)
         IN  Strict(filled, BitFill(filled, from + 1, to, b))

MortonOctantKey_root == [key |-> 0, depth |-> 0]

MortonOctantKey_sibling(self, corner) ==
    LET x == BitSet(self.key, X_BITS_START + self.depth, CornerBit(corner, 0))
        y == BitSet(x, Y_BITS_START + self.depth, CornerBit(corner, 1))
    IN  [self EXCEPT !.key = BitSet(y, Z_BITS_START + self.depth,
                                    CornerBit(corner, 2))]

\* child asserts self.depth < MAX_DEPTH.
MortonOctantKey_child(self, corner) ==
    MortonOctantKey_sibling([self EXCEPT !.depth = @ + 1], corner)

\* parent asserts self.depth > 0.
MortonOctantKey_parent(self) ==
    [MortonOctantKey_sibling(self, 0) EXCEPT !.depth = @ - 1]

MortonOctantKey_corner(self, corner) ==
    LET x == BitFill(self.key, X_BITS_START + self.depth, X_BITS_END,
                     CornerBit(corner, 0))
        y == BitFill(x, Y_BITS_START + self.depth, Y_BITS_END,
                     CornerBit(corner, 1))
    IN  BitFill(y, Z_BITS_START + self.depth, Z_BITS_END, CornerBit(corner, 2))

MortonOctantKey_corners(self) ==
    Tabulated([c \in Indices |-> MortonOctantKey_corner(self, c)])

IdleMorton == [octant |-> MortonOctantKey_root, called |-> FALSE,
               corners |-> Tabulated([c \in Indices |-> 0])]

\* octant = octant.child(corner)
MortonChild ==
    \E corner \in MortonWalk :
        /\ morton.octant.depth < MortonOctantKey_MAX_DEPTH
        /\ morton' = [IdleMorton EXCEPT
                         !.octant = MortonOctantKey_child(morton.octant, corner)]
        /\ UNCHANGED <<okey, tkey, isect, cont, act, zeroMin, naive, omap, refined, sub, mesh, par, mcube, geom, arena, step>>

\* octant = octant.parent()
MortonParent ==
    /\ morton.octant.depth > 0
    /\ morton' = [IdleMorton EXCEPT !.octant = MortonOctantKey_parent(morton.octant)]
    /\ UNCHANGED <<okey, tkey, isect, cont, act, zeroMin, naive, omap, refined, sub, mesh, par, mcube, geom, arena, step>>

\* octant.corners()
MortonCorners ==
    /\ ~morton.called
    /\ morton' = [morton EXCEPT !.called = TRUE,
                                !.corners = MortonOctantKey_corners(morton.octant)]
    /\ UNCHANGED <<okey, tkey, isect, cont, act, zeroMin, naive, omap, refined, sub, mesh, par, mcube, geom, arena, step>>

(***************************************************************************)
(* Terrain (lib.rs)                                                        *)
(*                                                                         *)
(* The arena is the sequence of its cells, a cell's Index its place in it  *)
(* (no cell is ever removed, so insert takes the next place).  A Cell is   *)
(* its children, <<>> for None or the 8 indices, and its depth; its values *)
(* are -1.0 at every corner of every cell, since no operation of Terrain   *)
(* writes a value, and are left out.  subdivide_cell takes &self, so       *)
(* threads can be in it together: a thread makes the check under the read  *)
(* lock and the cell's mutex, drops both, and later inserts under the      *)
(* write lock.  Each of the two is one step.                               *)
(***************************************************************************)

\* The threads that call subdivide_cell.
TerrainThreads == {1, 2}

\* The most cells the arena is let grow to before calls stop.
MaxArenaCells == 17

Cell_default == [children |-> <<>>, depth |-> 0]

Terrain_new == [cell_arena |-> <<Cell_default>>, root |-> 1]

\* subdivide_cell up to the drop of the locks: the children if the cell has
\* them, else the call goes on to insert.
Terrain_subdivide_cell_check(self, index) ==
    LET cell == self.cell_arena[index]
    IN  [returns |-> cell.children # <<>>, children |-> cell.children,
         new_depth |-> cell.depth + 1]

\* subdivide_cell from the write lock on: 8 cells inserted, their indices
\* made the children of the cell and returned.
Terrain_subdivide_cell_insert(self, index, new_depth) ==
    LET first == Len(self.cell_arena)
        new_indices == [c \in 1..8 |-> first + c]
        new_cells == [c \in 1..8 |-> [children |-> <<>>, depth |-> new_depth]]
    IN  [terrain |-> [self EXCEPT
                        !.cell_arena = [(@ \o new_cells) EXCEPT
                                           ![index].children = new_indices]],
         new_indices |-> new_indices]

IdleThread == [pc |-> "idle", index |-> 1, new_depth |-> 0, children |-> <<>>,
               inserted |-> 0]

IdleArena == [terrain |-> Terrain_new,
              threads |-> [t \in TerrainThreads |-> IdleThread]]

\* A thread calls subdivide_cell(index) and makes the check.
SubdivideCheck ==
    \E t \in TerrainThreads :
        /\ arena.threads[t].pc \in {"idle", "returned"}
        /\ Len(arena.terrain.cell_arena) < MaxArenaCells
        /\ \E index \in 1..Len(arena.terrain.cell_arena) :
              LET check == Terrain_subdivide_cell_check(arena.terrain, index)
              IN  arena' = [arena EXCEPT !.threads[t] =
                      [pc |-> IF check.returns THEN "returned" ELSE "unlocked",
                       index |-> index, new_depth |-> check.new_depth,
                       children |-> check.children, inserted |-> 0]]
        /\ UNCHANGED <<okey, tkey, isect, cont, act, zeroMin, naive, omap, refined, sub, mesh, par, mcube, geom, morton, step>>

\* A thread that dropped the locks takes the write lock and inserts.
SubdivideInsert ==
    \E t \in TerrainThreads :
        /\ arena.threads[t].pc = "unlocked"
        /\ LET call == arena.threads[t]
               done == Terrain_subdivide_cell_insert(arena.terrain, call.index,
                                                     call.new_depth)
           IN  arena' = [terrain |-> done.terrain,
                         threads |-> [arena.threads EXCEPT ![t] =
                             [call EXCEPT !.pc = "returned",
                                          !.children = done.new_indices,
                                          !.inserted = 8]]]
        /\ UNCHANGED <<okey, tkey, isect, cont, act, zeroMin, naive, omap, refined, sub, mesh, par, mcube, geom, morton, step>>


(***************************************************************************)
(* Mesh                                                                    *)
(*                                                                         *)
(* vertices is a list of points; indices and normals are Options, some     *)
(* telling Some from None; the kind of the normals is "Face" or "Vertex".  *)
(* A normal is kept as the cross product of the two edges, not normalised, *)
(* and the mean of normals as their sum divided by their number in         *)
(* integers: no property here depends on a normal's value.                 *)
(***************************************************************************)

\* The largest number of vertices of a Mesh.
MaxVertices == 3

MeshPoints == {<<0, 0, 0>>, <<1, 0, 0>>, <<0, 1, 0>>}

None == [some |-> FALSE, kind |-> "None", list |-> <<>>]
Some(kind, list) == [some |-> TRUE, kind |-> kind, list |-> list]

SeqsUpTo(S, n) == UNION {[1..k -> S] : k \in 0..n}

\* The number of faces: of index triples, or of vertex triples.
Mesh_face_count(self) ==
    IF self.indices.some THEN Len(self.indices.list) \div 3
    ELSE Len(self.vertices) \div 3

\* The three conditions on a Mesh.
MeshInvariant(self) ==
    /\ self.indices.some =>
           \A k \in 1..Len(self.indices.list) :
               self.indices.list[k] < Len(self.vertices)
    /\ self.normals.kind = "Face" =>
           Len(self.normals.list) = Mesh_face_count(self)
    /\ self.normals.kind = "Vertex" =>
           Len(self.normals.list) = Len(self.vertices)

\* The meshes the operations start from.
Meshes ==
    {self \in [vertices : SeqsUpTo(MeshPoints, MaxVertices),
               indices : {None} \cup {Some("Indices", l) :
                                          l \in {<<>>} \cup [1..3 -> 0..(MaxVertices - 1)]},
               normals : {None} \cup {Some(kind, l) :
                                          kind \in {"Face", "Vertex"},
                                          l \in SeqsUpTo({<<0, 0, 1>>}, MaxVertices)}] :
        MeshInvariant(self)}

\* The vert_map of index(): the distinct vertices in the order of their
\* first occurrence; a vertex's place in it, from 0, is its new index and
\* the place of its first occurrence, from 0, its old index.
RECURSIVE Distinct(_, _)
Distinct(list, seen) ==
    IF list = <<>> THEN seen
    ELSE Distinct(Tail(list),
                  IF \E n \in 1..Len(seen) : seen[n] = Head(list)
                  THEN seen ELSE Append(seen, Head(list)))

PlaceOf(list, v) == (CHOOSE n \in 1..Len(list) :
                        list[n] = v /\ \A j \in 1..(n - 1) : list[j] # v) - 1

\* Mesh::index.  With vertex normals the new normals are written by index
\* into a Vec that was made with a capacity and has length 0: the first
\* write panics.
Mesh_index(self) ==
    IF self.indices.some THEN self
    ELSE
    LET vert_map == Distinct(self.vertices, <<>>)
        indices == Tabulated([i \in 1..Len(self.vertices) |->
                                 PlaceOf(vert_map, self.vertices[i])])
        indexed == [self EXCEPT !.indices = Some("Indices", indices),
                                !.vertices = SubSeq(@, 1, Len(vert_map))]
    IN  IF self.normals.kind = "Vertex" /\ vert_map # <<>>
        THEN [indexed EXCEPT !.panicked = TRUE]
        ELSE [indexed EXCEPT
                !.normals = IF self.normals.kind = "Vertex"
                            THEN Some("Vertex", <<>>) ELSE @,
                !.vertices = vert_map]

Cross(a, b) ==
    <<a[2] * b[3] - a[3] * b[2], a[3] * b[1] - a[1] * b[3], a[1] * b[2] - a[2] * b[1]>>

Minus(a, b) == <<a[1] - b[1], a[2] - b[2], a[3] - b[3]>>

\* The normal of the face of three vertex numbers (from 0).
FaceNormal(self, face) ==
    Cross(Minus(self.vertices[face[2] + 1], self.vertices[face[1] + 1]),
          Minus(self.vertices[face[3] + 1], self.vertices[face[1] + 1]))

\* The faces: chunks_exact(3) of the indices, or the vertex triples.
Mesh_faces(self) ==
    Tabulated([x \in 1..Mesh_face_count(self) |->
        IF self.indices.some
        THEN SubSeq(self.indices.list, 3 * x - 2, 3 * x)
        ELSE <<3 * x - 3, 3 * x - 2, 3 * x - 1>>])

\* Mesh::generate_face_normals
Mesh_generate_face_normals(self) ==
    IF self.normals.some THEN self
    ELSE LET faces == Mesh_faces(self)
         IN  [self EXCEPT !.normals =
                 Some("Face", Tabulated([x \in 1..Len(faces) |->
                                            FaceNormal(self, faces[x])]))]

\* The mean of the normals of the faces that hold vertex i, ZERO if none.
VertexNormal(faces, normals, i) ==
    LET RECURSIVE sum(_, _)
        sum(x, acc) ==
            IF x > Len(faces) THEN acc
            ELSE LET times == Cardinality({n \in 1..3 : faces[x][n] = i})
                 IN  sum(x + 1, [count |-> acc.count + times,
                                 total |-> <<acc.total[1] + times * normals[x][1],
                                             acc.total[2] + times * normals[x][2],
                                             acc.total[3] + times * normals[x][3]>>])
        data == sum(1, [count |-> 0, total |-> <<0, 0, 0>>])
    IN  IF data.count = 0 THEN <<0, 0, 0>>
        ELSE <<data.total[1] \div data.count, data.total[2] \div data.count,
               data.total[3] \div data.count>>

\* Mesh::generate_vertex_normals
Mesh_generate_vertex_normals(self) ==
    LET with_normals == IF ~self.normals.some
                        THEN Mesh_generate_face_normals(self) ELSE self
        indexed == IF ~with_normals.indices.some
                   THEN Mesh_index(with_normals) ELSE with_normals
        faces == Mesh_faces(indexed)
    IN  IF indexed.panicked \/ indexed.normals.kind = "Vertex" THEN indexed
        ELSE [indexed EXCEPT !.normals =
                 Some("Vertex",
                      Tabulated([i \in 1..Len(indexed.vertices) |->
                          VertexNormal(faces, indexed.normals.list, i - 1)]))]

IdleGeom == [mesh |-> [vertices |-> <<>>, indices |-> None, normals |-> None,
                       panicked |-> FALSE],
             old |-> [vertices |-> <<>>, indices |-> None, normals |-> None,
                      panicked |-> FALSE],
             op |-> "none"]

\* A Mesh is made (its fields are public).
MeshNew ==
    \E self \in Meshes :
        /\ geom.op = "none"
        /\ geom' = [mesh |-> [vertices |-> self.vertices, indices |-> self.indices,
                              normals |-> self.normals, panicked |-> FALSE],
                    old |-> geom.mesh, op |-> "new"]
        /\ UNCHANGED <<okey, tkey, isect, cont, act, zeroMin, naive, omap, refined, sub, mesh, par, mcube, morton, arena, step>>

\* One operation on the Mesh; after a panic there are no more.
MeshIndex ==
    /\ geom.op # "none" /\ ~geom.mesh.panicked
    /\ geom' = [mesh |-> Mesh_index(geom.mesh), old |-> geom.mesh, op |-> "index"]
    /\ UNCHANGED <<okey, tkey, isect, cont, act, zeroMin, naive, omap, refined, sub, mesh, par, mcube, morton, arena, step>>

MeshGenerateFaceNormals ==
    /\ geom.op # "none" /\ ~geom.mesh.panicked
    /\ geom' = [mesh |-> Mesh_generate_face_normals(geom.mesh), old |-> geom.mesh,
                op |-> "generate_face_normals"]
    /\ UNCHANGED <<okey, tkey, isect, cont, act, zeroMin, naive, omap, refined, sub, mesh, par, mcube, morton, arena, step>>

MeshGenerateVertexNormals ==
    /\ geom.op # "none" /\ ~geom.mesh.panicked
    /\ geom' = [mesh |-> Mesh_generate_vertex_normals(geom.mesh), old |-> geom.mesh,
                op |-> "generate_vertex_normals"]
    /\ UNCHANGED <<okey, tkey, isect, cont, act, zeroMin, naive, omap, refined, sub, mesh, par, mcube, morton, arena, step>>

(***************************************************************************)
(* Initial states and specifications                                       *)
(***************************************************************************)

IdleIsect == [called |-> FALSE, a |-> ONE_CUBIC_METER, b |-> ONE_CUBIC_METER,
              ab |-> [type |-> "none"], ba |-> [type |-> "none"]]
IdleCont == [aabb |-> AABB_containing(<<>>), points |-> <<>>]
\* A cell's density starts at -1.0 (NaiveOctreeCell::default, OctantMap::new).
IdleAct == [action |-> "none", old |-> F(-DensityOne), val |-> F(-DensityOne),
            point |-> F(-DensityOne)]
IdleMap == [map |-> OctantMap_new, impl |-> "none",
            tool |-> Brush(<<0, 0, 0>>, 0, FALSE), action |-> "none",
            max_depth |-> 0, bounded_before |-> TRUE, old |-> OctantMap_new,
            old_action |-> "none", convex_only |-> TRUE,
            recurse_only |-> TRUE, calls |-> 0]
IdleMesh == [seq |-> [called |-> FALSE, max_depth |-> 0, faces |-> <<>>],
             par |-> [called |-> FALSE, max_depth |-> 0, faces |-> EmptyBag]]
IdlePar == [called |-> FALSE, call |-> 0, pending |-> {}, joining |-> {},
            tool_aabb |-> ONE_CUBIC_METER, aoe_aabb |-> ONE_CUBIC_METER,
            sequential |-> NaiveOctreeCell_default]
IdleSub == [called |-> FALSE, aabb |-> ONE_CUBIC_METER, cells |-> <<>>,
            child |-> <<>>]
IdleCell == [called |-> FALSE, cell |-> NaiveOctreeCell_default.values,
             children |-> <<>>]
IdleNaive == [tree |-> NaiveOctree_new, applied |-> FALSE,
              tool |-> Tool_new(Brush(<<0, 0, 0>>, 0, FALSE)), action |-> "none",
              max_depth |-> 0, old |-> NaiveOctreeCell_default,
              deepest_arg |-> 0, calls |-> 0]

Idle ==
    /\ okey = OctantKey_root
    /\ tkey = TreeKey_default
    /\ isect = IdleIsect
    /\ cont = IdleCont
    /\ act = IdleAct
    /\ naive = IdleNaive
    /\ omap = IdleMap
    /\ refined = IdleCell
    /\ sub = IdleSub
    /\ mesh = IdleMesh
    /\ par = IdlePar
    /\ mcube = IdleCube
    /\ geom = IdleGeom
    /\ morton = IdleMorton
    /\ arena = IdleArena
    /\ step = IdleStep

\* The keys and boxes compute no density: one build stands for both.
Init == Idle /\ zeroMin = "self"

InitBuild == Idle /\ zeroMin \in {"self", "other"}

NextOctantKey == OKPush \/ OKPop \/ OKChild \/ OKParent \/ OKSetDepth \/ OKSetIndex
SpecOctantKey == Init /\ [][NextOctantKey]_vars

NextTreeKey == TKFromIter \/ TKPush \/ TKPop \/ TKSetDepth \/ TKSetIndex \/ TKSetCorner
SpecTreeKey == Init /\ [][NextTreeKey]_vars

NextIntersect == Intersect
SpecIntersect == Init /\ [][NextIntersect]_vars

NextContaining == ContainingFirst \/ Expand \/ Transformed
SpecContaining == Init /\ [][NextContaining]_vars

NextAction == ApplyValue
SpecAction == InitBuild /\ [][NextAction]_vars

NextNaive == NaiveApplyTool
SpecNaive == InitBuild /\ [][NextNaive]_vars

NextMap == MapApplyToolRecurse \/ MapApplyToolFilter
SpecMap == InitBuild /\ [][NextMap]_vars

\* Both terrains side by side, MaxCalls apply_tool calls between them.
TerrainCalls == naive.calls + omap.calls
NextTerrains ==
    \/ TerrainCalls < MaxCalls /\ NaiveApplyTool
    \/ TerrainCalls < MaxCalls /\ MapApplyToolRecurse
    \/ TerrainCalls < MaxCalls /\ MapApplyToolFilter
SpecTerrains == InitBuild /\ [][NextTerrains]_vars

NextMesh == ShapeOctree \/ GenerateMesh \/ ParGenerateMesh
SpecMesh == InitBuild /\ [][NextMesh]_vars

NextPar == SequentialApplyTool \/ ParApplyTool \/ ParTask \/ ParJoin
SpecPar == InitBuild /\ [][NextPar]_vars

NextParity == ApplyToolToBoth
SpecParity == InitBuild /\ [][NextParity]_vars

NextGeom == MeshNew \/ MeshIndex \/ MeshGenerateFaceNormals \/ MeshGenerateVertexNormals
SpecGeom == Init /\ [][NextGeom]_vars

NextStep == ShapeForStep \/ ApplyToolStep
SpecStep == InitBuild /\ [][NextStep]_vars

NextMorton == MortonChild \/ MortonParent \/ MortonCorners
SpecMorton == Init /\ [][NextMorton]_vars

NextArena == SubdivideCheck \/ SubdivideInsert
SpecArena == Init /\ [][NextArena]_vars

NextTables == LookUp
SpecTables == Init /\ [][NextTables]_vars

NextOctreeSubdivide == OctreeSubdivide
SpecOctreeSubdivide == Init /\ [][NextOctreeSubdivide]_vars

NextSubdivide == SubdivideCell
SpecSubdivide == Init /\ [][NextSubdivide]_vars


(***************************************************************************)
(* Properties of OctantKey                                                 *)
(***************************************************************************)

\* C1: for every key reachable from root() by push alone, of depth 0..=18,
\* and every index i, push(i) followed by pop() returns i and leaves the
\* key equal to its value before the push.
C1_PushPopInverse ==
    (okey = OctantKey_from_path(OctantKey_iter(okey))
        /\ okey.depth <= OctantKeyMaxDepth - 1)
    => \A i \in Indices :
          OctantKey_pop(OctantKey_push(okey, i)) = [index |-> i, key |-> okey]

\* C2: after any sequence of OctantKey operations from root() the key is
\* canonical: depth at most 19, every index beyond depth 0, bits 57-58 0.
C2_AlwaysCanonical == OctantKey_sanity_check(okey)

(***************************************************************************)
(* Properties of TreeKey                                                   *)
(***************************************************************************)

CornerPoint(k, c) == AABB_calculate_corners(TreeKey_cell_aabb(k))[c]

\* C4: whenever the cell of tkey and any other cell have a corner at the
\* same physical point, corner_keys() gives that point the same packed key
\* from both cells.
C4_SharedCornerSameKey ==
    \A path \in Paths, c \in Indices, c2 \in Indices :
        LET q == TreeKey_from_iter(path, 0)
        IN  CornerPoint(tkey, c) = CornerPoint(q, c2)
            => TreeKey_key(TreeKey_corner_keys(tkey)[c])
               = TreeKey_key(TreeKey_corner_keys(q)[c2])

(***************************************************************************)
(* Properties of AABB                                                      *)
(***************************************************************************)

SameAxes(a, b) == {i \in Axes : a.start[i] = b.start[i] /\ a.size[i] = b.size[i]}

C6_IntersectSymmetric ==
    isect.called =>
        /\ isect.ab.type = "DoesNotIntersect" <=> isect.ba.type = "DoesNotIntersect"
        /\ isect.ab.type = "Intersects" =>
             /\ isect.ba = isect.ab
             /\ \A i \in Axes :
                  /\ isect.ab.aabb.start[i] = Max(isect.a.start[i], isect.b.start[i])
                  /\ isect.ab.aabb.start[i] + isect.ab.aabb.size[i]
                       = Min(isect.a.start[i] + isect.a.size[i],
                             isect.b.start[i] + isect.b.size[i])

\* C7: the box built by containing, expand by expand, contains every point
\* given so far, in whatever order they came; the box built by transformed
\* contains all 8 transformed corners.
C7_ContainsEveryPoint ==
    \A n \in 1..Len(cont.points) : AABB_contains(cont.aabb, cont.points[n])

\* The grid cubes (named by their lowest corner) that a box on the grid
\* is made of.
GridCubes(aabb) ==
    {<<x, y, z>> : x \in aabb.start[1]..(aabb.start[1] + aabb.size[1] - 1),
                   y \in aabb.start[2]..(aabb.start[2] + aabb.size[2] - 1),
                   z \in aabb.start[3]..(aabb.start[3] + aabb.size[3] - 1)}

\* C15: octree_subdivide returns 8 boxes of half the size, box i starting
\* at start + half_size * (bit 0, bit 1, bit 2 of i); the boxes tile the
\* parent (no two overlap inside, together they are the parent), and
\* octree_child(i) is box i.
C15_SubdivideTiles ==
    sub.called =>
        /\ \A i \in Indices :
              /\ \A a \in Axes :
                    /\ 2 * sub.cells[i].size[a] = sub.aabb.size[a]
                    /\ sub.cells[i].start[a] =
                         sub.aabb.start[a]
                           + sub.cells[i].size[a] * ((i \div (2 ^ (a - 1))) % 2)
              /\ sub.child[i] = sub.cells[i]
        /\ \A i \in Indices, j \in Indices :
              i # j => GridCubes(sub.cells[i]) \cap GridCubes(sub.cells[j]) = {}
        /\ UNION {GridCubes(sub.cells[i]) : i \in Indices} = GridCubes(sub.aabb)

\* A box of 4 x 2 x 2 grid steps off the origin, subdivided: octant 5
\* starts two steps along x and one along z.
C15_Witness ==
    /\ sub.called
    /\ sub.aabb = AABB(<<-1, 0, 1>>, <<4, 2, 2>>)
    /\ sub.cells[5] = AABB(<<1, 0, 2>>, <<2, 1, 1>>)


(***************************************************************************)
(* Properties of Action                                                    *)
(***************************************************************************)

C11_RemoveZeroIsNoOp ==
    (act.action = "Remove" /\ Num(act.val) = 0)
        => Num(act.point) = Num(act.old)


(***************************************************************************)
(* Properties of utils::subdivide_cell                                     *)
(***************************************************************************)

\* Bit a (1 = x, 2 = y, 3 = z) of a corner or child index.
IndexBit(i, a) == (i \div (2 ^ (a - 1))) % 2

\* 8 times the trilinear interpolation of the cell's corners at the point
\* g of the 3x3x3 grid (each coordinate 0, 1 or 2): corner c weighs, on
\* each axis, g if its bit is set and 2 - g if not.
RECURSIVE TrilinearSum(_, _, _)
TrilinearSum(c, g, i) ==
    IF i > 7 THEN 0
    ELSE Num(c[i])
           * (IF IndexBit(i, 1) = 1 THEN g[1] ELSE 2 - g[1])
           * (IF IndexBit(i, 2) = 1 THEN g[2] ELSE 2 - g[2])
           * (IF IndexBit(i, 3) = 1 THEN g[3] ELSE 2 - g[3])
         + TrilinearSum(c, g, i + 1)

\* C14: subdivide_cell is trilinear corner refinement: corner j of child k
\* is the grid point at (bits of k) + (bits of j), whose value is the
\* trilinear interpolation of the parent's corners (the mean of 2 corners
\* on an edge, of 4 on a face, of all 8 at the centre, the corner itself
\* at a corner); so child k keeps the parent's corner k, siblings agree on
\* shared grid points, and a uniform cell yields uniform children.
C14_TrilinearRefinement ==
    refined.called =>
        /\ \A k \in Indices, j \in Indices :
              8 * Num(refined.children[k][j]) =
                  TrilinearSum(refined.cell,
                      <<IndexBit(k, 1) + IndexBit(j, 1),
                        IndexBit(k, 2) + IndexBit(j, 2),
                        IndexBit(k, 3) + IndexBit(j, 3)>>, 0)
        /\ \A k \in Indices :
              Num(refined.children[k][k]) = Num(refined.cell[k])
        /\ (\A i \in Indices : Num(refined.cell[i]) = Num(refined.cell[0]))
              => \A k \in Indices, j \in Indices :
                    Num(refined.children[k][j]) = Num(refined.cell[0])

\* A cell with one corner at 1.0 and the others at -1.0, subdivided: the
\* centre of the grid, corner 7 of child 0, is -0.75.
C14_Witness ==
    /\ refined.called
    /\ Num(refined.cell[0]) = DensityOne
    /\ \A i \in 1..7 : Num(refined.cell[i]) = -DensityOne
    /\ 8 * Num(refined.children[0][7]) = -6 * DensityOne


(***************************************************************************)
(* Properties of NaiveOctree                                               *)
(***************************************************************************)

\* C8: NaiveOctreeCell::apply_tool never subdivides at current_depth >=
\* max_depth: from a fresh NaiveOctree, after calls whose max_depth
\* arguments are all <= D no cell lies deeper than D; and when the root's
\* apply_tool runs with max_depth = 0 on a leaf root, the root remains a
\* leaf whose corner i holds the action applied to the old value of corner
\* i and the tool's value at corner i.
C8_DepthBounded ==
    /\ NaiveOctreeCell_depth(naive.tree.root) <= naive.deepest_arg
    /\ (naive.applied /\ naive.max_depth = 0 /\ naive.old.children = <<>>) =>
         /\ naive.tree.root.children = <<>>
         /\ \A i \in Indices :
              naive.tree.root.values[i] =
                Action_apply_value(naive.action, naive.old.values[i],
                    Tool_value(naive.tool,
                        AABB_calculate_corners(
                            NaiveOctree_terrain_aabb(naive.tree))[i]))

\* A call with max_depth = 0 whose tool crosses the surface inside the root
\* (it would subdivide at a larger max_depth) has changed the root's values
\* and left it a leaf.
C8_Witness ==
    /\ naive.applied
    /\ naive.max_depth = 0
    /\ naive.deepest_arg = 0
    /\ naive.tree.root.children = <<>>
    /\ NaiveOctreeCell_intersects_surface(naive.tree.root)
    /\ naive.tree.root.values # naive.old.values

\* C12: Place is idempotent: after an apply_tool call with Action::Place,
\* the same call again (same tool, same max_depth) leaves the terrain as
\* it is, cells and corner densities alike.
C12_PlaceIdempotent ==
    naive.action = "Place" =>
        NaiveOctree__apply_tool(naive.tree, naive.tool, "Place",
                                naive.max_depth).root = naive.tree.root

\* A Place call that reached the root, changed its densities and left it
\* subdivided.
C12_Witness ==
    /\ naive.action = "Place"
    /\ naive.applied
    /\ naive.tree.root.children # <<>>
    /\ naive.tree.root.values # naive.old.values
    /\ NaiveOctree__apply_tool(naive.tree, naive.tool, "Place",
                               naive.max_depth).root = naive.tree.root


(***************************************************************************)
(* Properties of OctantMap                                                 *)
(***************************************************************************)

\* C9: if every octant has depth <= max_depth before a call of
\* apply_tool_recurse or apply_tool_filter, every octant in the map has
\* depth <= max_depth after it, for convex and concave tools alike.
C9_MapDepthBounded ==
    omap.bounded_before =>
        \A k \in DOMAIN omap.map.octants : OctantKey_depth(k) <= omap.max_depth


\* C13: in apply_tool_recurse and apply_tool_filter alike, a Remove whose
\* tool is positive at every corner of every octant, applied to a terrain
\* that a Place edit left subdivided, brings every density to -1 and
\* collapses the octants: the root is a leaf again when the call returns.
C13_RemoveAllCollapses ==
    (/\ omap.action = "Remove"
     /\ omap.old_action = "Place"
     /\ OctantMap_has_children(omap.old, OctantKey_root)
     /\ \A k \in DOMAIN omap.old.octants : \A c \in Indices :
            Num(Brush_value(omap.tool,
                    AABB_calculate_corners(OctantKey_aabb(k))[c],
                    OctantKey_scale(k))) > 0)
    => /\ ~omap.map.panicked
       /\ DOMAIN omap.map.octants = {OctantKey_root}
       /\ omap.map.leaves = {OctantKey_root}
       /\ \A c \in Indices :
              omap.map.octants[OctantKey_root][c] = F(-DensityOne)

\* C16: apply_tool_recurse is total: for every tool, action and max_depth
\* the call returns without a panic.
C16_RecurseTotal ==
    omap.impl = "recurse" => ~omap.map.panicked

\* C20: after new() and any calls of apply_tool_recurse and apply_tool_filter
\* with convex tools, leaves is exactly the set of the stored octants that
\* have no children.
C20_LeavesAreChildless ==
    (omap.convex_only /\ ~omap.map.panicked) =>
        omap.map.leaves =
            {k \in DOMAIN omap.map.octants : ~OctantMap_has_children(omap.map, k)}

\* Convex tools subdivided the root and an octant below it is a leaf.
C20_Witness ==
    /\ omap.convex_only /\ ~omap.map.panicked /\ omap.calls = MaxCalls
    /\ OctantKey_root \notin omap.map.leaves
    /\ OctantKey_child(OctantKey_root, 0) \in omap.map.leaves


(***************************************************************************)
(* Properties of both terrains                                             *)
(***************************************************************************)

\* A tool that cannot affect the box: its area of effect does not intersect
\* it, or the action is Place and the tool's own box does not intersect it.
OffTheTerrain(terrain_aabb, tool, action) ==
    \/ AABB_intersect(terrain_aabb, Tool_aoe_aabb(tool)).type = "DoesNotIntersect"
    \/ /\ action = "Place"
       /\ AABB_intersect(terrain_aabb, Tool_tool_aabb(tool)).type = "DoesNotIntersect"

\* C17: NaiveOctree::apply_tool, apply_tool_recurse and apply_tool_filter
\* leave the terrain exactly as it was when the tool's area of effect does
\* not intersect the terrain's box, and when the action is Place and the
\* tool's own box does not intersect it.
C17_OffTerrainUnchanged ==
    /\ (/\ naive.action # "none"
        /\ OffTheTerrain(NaiveOctree_terrain_aabb(naive.tree), naive.tool, naive.action))
           => naive.tree.root = naive.old
    /\ (/\ omap.action # "none"
        /\ OffTheTerrain(OctantKey_aabb(OctantKey_root), Tool_new(omap.tool), omap.action))
           => omap.map = omap.old

\* Each terrain got a Place whose area of effect reaches it while the tool's
\* own box does not; for a Remove of the same tool the call is not cut short.
C17_Witness ==
    LET near == Brush(<<-2 * Quarter, -2 * Quarter, -2 * Quarter>>, Quarter, FALSE)
    IN  /\ naive.action = "Place" /\ naive.tool = Tool_new(near)
        /\ omap.action = "Place" /\ omap.tool = near
        /\ naive.tree.root = naive.old
        /\ omap.map = omap.old
        /\ OffTheTerrain(OctantKey_aabb(OctantKey_root), Tool_new(near), "Place")
        /\ ~OffTheTerrain(OctantKey_aabb(OctantKey_root), Tool_new(near), "Remove")

(***************************************************************************)
(* Properties of the NaiveOctree meshes                                    *)
(***************************************************************************)

\* The bag of the elements of a list.
BagOfSeq(list) ==
    [cell \in {list[n] : n \in DOMAIN list} |->
        Cardinality({n \in DOMAIN list : list[n] = cell})]

\* C18: par_generate_mesh(max_depth) marches the cells that
\* generate_mesh(max_depth) marches on the same octree, each as often.
C18_ParMeshSameCells ==
    (mesh.seq.called /\ mesh.par.called /\ mesh.seq.max_depth = mesh.par.max_depth)
        => mesh.par.faces = BagOfSeq(mesh.seq.faces)

(***************************************************************************)
(* Properties of NaiveOctree::par_apply_tool                               *)
(***************************************************************************)

\* C19: when a par_apply_tool call has returned, in whatever order its
\* tasks ran, the octree is the one apply_tool makes of the same octree
\* with the same tool, action and max_depth.
C19_ParEqualsSequential ==
    (par.called /\ ~ParRunning /\ par.call = naive.calls)
        => naive.tree.root = par.sequential

\* A parallel call that returned after its 8 child tasks ran and it
\* collapsed the subdivided octree.
C19_Witness ==
    /\ par.called /\ ~ParRunning /\ par.call = naive.calls /\ naive.applied
    /\ naive.old.children # <<>>
    /\ naive.tree.root.children = <<>>
    /\ naive.tree.root = par.sequential

(***************************************************************************)
(* Properties of the two density fields together                           *)
(***************************************************************************)

\* The leaves below a NaiveOctreeCell, each with its path from the root
\* (octant numbers 0..7) and its values.
RECURSIVE NaiveLeaves(_, _)
NaiveLeaves(self, path) ==
    IF self.children = <<>> THEN {[path |-> path, values |-> self.values]}
    ELSE UNION {NaiveLeaves(self.children[c], Append(path, c - 1)) : c \in 1..8}

\* The leaves of an OctantMap in the same form.
MapLeaves(this) ==
    {[path |-> SubSeq(k.cells, 1, k.depth), values |-> this.octants[k]] :
        k \in this.leaves}

\* C21: after the same edits with convex tools, NaiveOctree::apply_tool and
\* OctantMap::apply_tool_recurse hold the same leaf cells with the same 8
\* corner densities.
C21_SameLeaves ==
    (omap.calls = naive.calls /\ omap.convex_only /\ ~omap.map.panicked)
        => NaiveLeaves(naive.tree.root, <<>>) = MapLeaves(omap.map)

(***************************************************************************)
(* Properties of the marching-cubes tables                                 *)
(***************************************************************************)

\* The number of entries of a row before its first -1.
TriLen(row) ==
    IF \A i \in 1..Len(row) : row[i] # -1 THEN Len(row)
    ELSE (CHOOSE i \in 1..Len(row) :
              row[i] = -1 /\ \A j \in 1..(i - 1) : row[j] # -1) - 1

\* C22: for every configuration, the entries of its TRI_TABLE row other than
\* -1 are edge numbers 0..11 whose bit is set in its EDGE_TABLE entry, they
\* form a prefix of the row, and their number is a multiple of 3, at most 15.
C22_TablesConsistent ==
    mcube.looked =>
        LET row == mcube.tris
            n == TriLen(row)
        IN  /\ Len(row) = 15
            /\ \A i \in 1..15 :
                   row[i] # -1 => /\ row[i] \in 0..11
                                  /\ EdgeBit(mcube.edges, row[i])
                                  /\ i <= n
            /\ n % 3 = 0
            /\ n \div 3 \in 0..5

\* A configuration of 5 triangles, whose row has no -1.
C22_Witness ==
    /\ mcube.looked
    /\ mcube.config = 61
    /\ TriLen(mcube.tris) = 15
    /\ \A i \in 1..15 : EdgeBit(mcube.edges, mcube.tris[i])

(***************************************************************************)
(* Properties of Mesh                                                      *)
(***************************************************************************)

\* C23: index(), generate_face_normals() and generate_vertex_normals(), on
\* a Mesh that satisfies the three conditions, return normally and leave a
\* Mesh that satisfies them; after index() on a Mesh without indices,
\* vertices[indices[k]] is the k-th vertex the Mesh had.
C23_MeshInvariantKept ==
    (geom.op \notin {"none", "new"} /\ MeshInvariant(geom.old)) =>
        /\ ~geom.mesh.panicked
        /\ MeshInvariant(geom.mesh)
        /\ (geom.op = "index" /\ ~geom.old.indices.some) =>
               /\ Len(geom.mesh.indices.list) = Len(geom.old.vertices)
               /\ \A k \in 1..Len(geom.old.vertices) :
                      geom.mesh.vertices[geom.mesh.indices.list[k] + 1]
                          = geom.old.vertices[k]

(***************************************************************************)
(* Properties of one apply-tool step                                       *)
(***************************************************************************)

\* The values a cell gets: the action on each old value and the tool's value
\* at that corner of the box, over the given scale.
Applied(func, action, values, aabb, scale) ==
    LET corners == AABB_calculate_corners(aabb)
    IN  Tabulated([i \in Indices |->
            Action_apply_value(action, values[i],
                               Brush_value(func, corners[i], scale))])

\* C24: a call that reaches the root gives it the action's values of its
\* old values; when the call subdivides a root that was a leaf, child c has
\* the action's values of the values interpolated from the root's old
\* values, with the tool taken at the child's own corners.  For
\* NaiveOctree::apply_tool and OctantMap::apply_tool_recurse alike.
C24_NewFromOld ==
    /\ (naive.action # "none" /\ naive.applied) =>
          LET box == NaiveOctree_terrain_aabb(naive.tree)
              root == naive.tree.root
          IN  /\ root.values = Applied(naive.tool.func, naive.action,
                                       naive.old.values, box, Unit)
              /\ (naive.old.children = <<>> /\ root.children # <<>>) =>
                    \A c \in Indices :
                        root.children[c + 1].values =
                            Applied(naive.tool.func, naive.action,
                                    subdivide_cell(naive.old.values)[c],
                                    AABB_octree_child(box, c), Unit)
    /\ (/\ omap.impl = "recurse" /\ ~omap.map.panicked
        /\ ~OffTheTerrain(ONE_CUBIC_METER, Tool_new(omap.tool), omap.action)) =>
          LET old == omap.old.octants[OctantKey_root]
          IN  /\ omap.map.octants[OctantKey_root] =
                     Applied(omap.tool, omap.action, old, ONE_CUBIC_METER, Unit)
              /\ (/\ DOMAIN omap.old.octants = {OctantKey_root}
                  /\ DOMAIN omap.map.octants # {OctantKey_root}) =>
                    \A c \in Indices :
                        omap.map.octants[OctantKey_child(OctantKey_root, c)] =
                            Applied(omap.tool, omap.action,
                                    subdivide_cell(old)[c],
                                    AABB_octree_child(ONE_CUBIC_METER, c),
                                    Unit \div 2)

\* Both terrains were subdivided from a single leaf by a tool that changed
\* the root's values: the children's values come from the old ones.
C24_Witness ==
    /\ naive.action = "Place" /\ naive.applied
    /\ naive.old.children = <<>> /\ naive.tree.root.children # <<>>
    /\ naive.tree.root.values # naive.old.values
    /\ omap.impl = "recurse" /\ ~omap.map.panicked
    /\ DOMAIN omap.old.octants = {OctantKey_root}
    /\ DOMAIN omap.map.octants # {OctantKey_root}
    /\ omap.map.octants[OctantKey_root] # omap.old.octants[OctantKey_root]

(***************************************************************************)
(* Properties of the subdivision in a step                                 *)
(***************************************************************************)

\* diff_signs of the values a step left in its cell.
DiffSigns(values) ==
    \E i \in 0..6 : f32_signum(values[i]) # f32_signum(values[i + 1])

\* C25: a step with a convex tool on a leaf with current_depth < max_depth
\* subdivides it if and only if diff_signs is true or check_aabb (tool_aabb
\* for Place, aoe_aabb for Remove) intersected with the cell's box is
\* ContainedBy or Intersects.
C25_ConvexSubdivision ==
    (/\ step.called /\ Tool_is_convex(step.tool)
     /\ step.self.children = <<>> /\ step.current_depth < step.max_depth) =>
        LET check_aabb == IF step.action = "Place" THEN step.tool_aabb
                          ELSE step.aoe_aabb
        IN  step.after.children # <<>>
              <=> \/ DiffSigns(step.after.values)
                  \/ AABB_intersect(check_aabb, step.cell_aabb).type
                        \in {"ContainedBy", "Intersects"}

\* A leaf of depth 1 that a convex tool's box only Intersects, with new
\* values of one sign, is subdivided.
C25_Witness ==
    /\ step.called /\ Tool_is_convex(step.tool)
    /\ step.self.children = <<>> /\ step.current_depth = 1 /\ step.max_depth = 2
    /\ ~DiffSigns(step.after.values)
    /\ AABB_intersect(IF step.action = "Place" THEN step.tool_aabb ELSE step.aoe_aabb,
                      step.cell_aabb).type = "Intersects"
    /\ step.after.children # <<>>

\* C26: a step with a concave tool on a leaf with current_depth < max_depth
\* subdivides it if and only if diff_signs is true or aoe_aabb intersected
\* with the cell's box is not DoesNotIntersect.
C26_ConcaveSubdivision ==
    (/\ step.called /\ Tool_is_concave(step.tool)
     /\ step.self.children = <<>> /\ step.current_depth < step.max_depth) =>
        (step.after.children # <<>>
           <=> \/ DiffSigns(step.after.values)
               \/ AABB_intersect(step.aoe_aabb, step.cell_aabb).type
                     # "DoesNotIntersect")

(***************************************************************************)
(* Properties of the collapse after a call                                 *)
(***************************************************************************)

\* All 8 corners of one sign.
OneSign(values) ==
    \A i, j \in Indices : f32_signum(values[i]) = f32_signum(values[j])

\* No cell below (and including) cell has 8 children that are all leaves
\* with corners of one sign.
RECURSIVE NoneCollapsible(_)
NoneCollapsible(cell) ==
    \/ cell.children = <<>>
    \/ /\ \E c \in 1..8 : \/ cell.children[c].children # <<>>
                          \/ ~OneSign(cell.children[c].values)
       /\ \A c \in 1..8 : NoneCollapsible(cell.children[c])

\* The same of the octants of an OctantMap.
MapNoneCollapsible(this) ==
    \A k \in DOMAIN this.octants :
        (~OctantKey_at_max_depth(k) /\ OctantKey_child(k, 0) \in DOMAIN this.octants) =>
            \E i \in Indices :
                LET child == OctantKey_child(k, i)
                IN  \/ /\ ~OctantKey_at_max_depth(child)
                       /\ OctantKey_child(child, 0) \in DOMAIN this.octants
                    \/ ~OneSign(this.octants[child])

C28_CornersUnambiguous ==
    morton.called =>
        /\ \A c, d \in Indices : c # d => morton.corners[c] # morton.corners[d]
        /\ morton.octant.depth > 0 =>
               \A s, c \in Indices :
                   LET other == MortonOctantKey_sibling(morton.octant, s)
                   IN  other # morton.octant =>
                           MortonOctantKey_corner(other, c) # morton.corners[c]

(***************************************************************************)
(* Properties of the densities a parent and its children share             *)
(***************************************************************************)

\* Child c (1..8) of a cell is the octant at bit a of c - 1 along axis a, and
\* its corner i is at bit a of i within it, so corner i of child c is the
\* point of the cell's 3x3x3 grid at IndexBit(c - 1, a) + IndexBit(i, a)
\* along axis a.  The first child that has that point, and the corner of
\* that child at it:
FirstAt(c, i) ==
    LET at == [a \in Axes |-> IndexBit(c - 1, a) + IndexBit(i, a)]
    IN  [child |-> 1 + (at[1] \div 2) + 2 * (at[2] \div 2) + 4 * (at[3] \div 2),
         corner |-> (at[1] - at[1] \div 2) + 2 * (at[2] - at[2] \div 2)
                    + 4 * (at[3] - at[3] \div 2)]

\* In every family below (and including) cell: child k has at its corner k
\* the value of the parent's corner k, and every child has at each corner
\* the value the first child at that point has there, so that two children
\* have the same value at a corner they share.
RECURSIVE FamiliesAgree(_)
FamiliesAgree(cell) ==
    \/ cell.children = <<>>
    \/ /\ \A c \in 1..8 : cell.children[c].values[c - 1] = cell.values[c - 1]
       /\ \A c \in 2..8 : \A i \in Indices :
              LET first == FirstAt(c, i)
              IN  cell.children[c].values[i]
                    = cell.children[first.child].values[first.corner]
       /\ \A c \in 1..8 : FamiliesAgree(cell.children[c])

\* C29: after any apply_tool calls on a NaiveOctree, in each family of a
\* parent and its 8 children, child k's corner k equals the parent's corner
\* k and two children store the same density at a corner they share.
C29_SharedPointsAgree ==
    FamiliesAgree(naive.tree.root)

\* Two calls left an octree of depth 2 whose root has corners of both signs
\* and a child with children.
C29_Witness ==
    /\ naive.calls = 2 /\ naive.applied
    /\ naive.old.children # <<>>
    /\ NaiveOctreeCell_depth(naive.tree.root) = 2
    /\ NaiveOctreeCell_intersects_surface(naive.tree.root)
    /\ \E c \in 1..8 : naive.tree.root.children[c].values[8 - c]
                          # naive.old.children[c].values[8 - c]

(***************************************************************************)
(* Properties of Terrain::subdivide_cell under concurrent callers          *)
(***************************************************************************)

\* C30: subdivide_cell is atomic for concurrent callers: two calls on the
\* same cell return the same 8 indices, which are the cell's children, the
\* arena holds no cell but the root and the children of its cells (8 cells
\* inserted for each subdivided cell), and a call on a cell with children
\* inserts nothing.
C30_SubdivideAtomic ==
    LET cells == arena.terrain.cell_arena
        parents == {i \in 1..Len(cells) : cells[i].children # <<>>}
    IN  /\ \A t, u \in TerrainThreads :
              (/\ arena.threads[t].pc = "returned"
               /\ arena.threads[u].pc = "returned"
               /\ arena.threads[t].index = arena.threads[u].index) =>
                  arena.threads[t].children = arena.threads[u].children
        /\ \A t \in TerrainThreads :
              arena.threads[t].pc = "returned" =>
                  arena.threads[t].children = cells[arena.threads[t].index].children
        /\ Len(cells) = 1 + 8 * Cardinality(parents)
        /\ \A i \in 2..Len(cells) :
              \E p \in parents : \E c \in 1..8 : cells[p].children[c] = i


====
